---- MODULE Spec2Model ----
(***************************************************************************)
(* AdapDict backend: the query analyzer (utils/query_analyzer.py), the     *)
(* verifier verdict and client (schemas/verifier/common.py,                *)
(* utils/verifier_client.py), the answer summarizer and the /api/search    *)
(* pipeline (main.py).                                                     *)
(*                                                                         *)
(* A text is a sequence of characters; a character is its Unicode code     *)
(* point (44032 is the Hangul syllable GA, U+AC00).                        *)
(***************************************************************************)
EXTENDS Integers, Sequences, FiniteSets, TLC

VARIABLES
    pc,                    \* where the handler (or the function under study) stands
    request,               \* the JSON body of the request
    query, education, field, mode, native_lang, target_lang,
    llm, analysis, generator_schema,
    entry,                 \* the first generated answer
    verifier_answer_text,  \* the digest handed to the verifier
    verifier_source_lang, verifier_target_lang,
    verifier_result,
    entry_regen,           \* the regenerated answer
    generator_response,    \* the generation service's reply to the first call
    regen_response,        \* its reply to the second call
    verifier_response,     \* the verifier service's reply
    response,              \* what the handler returns
    gen_calls, ver_calls,  \* calls made to the generation and verifier services
    generator_prompt,      \* the instruction text of the first generation call
    regen_prompt,          \* the instruction text of the second one
    parked                 \* the frame of a second request being handled, if any

vars == <<pc, request, query, education, field, mode, native_lang, target_lang,
          llm, analysis, generator_schema, entry, verifier_answer_text,
          verifier_source_lang, verifier_target_lang, verifier_result, entry_regen,
          generator_response, regen_response, verifier_response, response,
          gen_calls, ver_calls, generator_prompt, regen_prompt, parked>>

\* Python's None, for the variables that hold a structure
None == [is_none |-> TRUE]

\* ------------------------------------------------------------------------
\* Characters and character classes (query_analyzer.py:43-49)
\* ------------------------------------------------------------------------
\* A character is its Unicode code point.
TAB == 9
NL == 10
CR == 13
SP == 32
EXCLAMATION == 33
DOUBLE_QUOTE == 34
APOSTROPHE == 39
RIGHT_PAREN == 41
COMMA == 44
FULL_STOP == 46
SLASH == 47
SEMICOLON == 59
QUESTION == 63
LATIN_a == 97
MIDDLE_DOT == 183
A_UMLAUT == 228
RIGHT_SINGLE_QUOTE == 8217
RIGHT_DOUBLE_QUOTE == 8221
ZH_ENUM_COMMA == 12289
ZH_FULL_STOP == 12290
CJK_ZHONG == 20013
HANGUL_GA == 44032
ZH_EXCLAM == 65281
ZH_COMMA == 65292
ZH_SEMICOLON == 65307
ZH_QUESTION == 65311

LangCode == {"ko", "en", "zh", "de"}

\* _CJK_RANGE [一-鿿], _HANGUL_RANGE [가-힣], _LATIN_RANGE [A-Za-z],
\* _GERMAN_CHAR, _SENT_TERM_LATIN, _SENT_TERM_ZH, _LIST_SPLIT_PATTERN
CJK_RANGE == 19968..40959
HANGUL_RANGE == 44032..55203
LATIN_RANGE == (65..90) \cup (97..122)
GERMAN_CHAR == {196, 214, 220, 228, 246, 252, 223}
SENT_TERM_LATIN == {FULL_STOP, EXCLAMATION, QUESTION}
SENT_TERM_ZH == {ZH_FULL_STOP, ZH_QUESTION, ZH_EXCLAM}
LIST_SPLIT_CHARS == {SEMICOLON, COMMA, SLASH, MIDDLE_DOT, ZH_COMMA, ZH_ENUM_COMMA, ZH_SEMICOLON}

\* Python's str.strip() / regex \s on the characters of the model
WHITESPACE ==
    {9, 10, 11, 12, 13, 28, 29, 30, 31, 32, 133, 160, 5760, 8232, 8233, 8239, 8287, 12288}
    \cup (8192..8202)
IsSpace(c) == c \in WHITESPACE

\* ------------------------------------------------------------------------
\* Sequence helpers
\* ------------------------------------------------------------------------
Repeat(c, n) == [i \in 1..n |-> c]

RECURSIVE Flatten(_)
Flatten(ss) == IF ss = <<>> THEN <<>> ELSE Head(ss) \o Flatten(Tail(ss))

\* number of i in 1..Len(s) with s[i] in the class
CountIn(s, class) == Cardinality({i \in 1..Len(s) : s[i] \in class})

MinOf(S) == CHOOSE i \in S : \A j \in S : i <= j
MaxOf(S) == CHOOSE i \in S : \A j \in S : j <= i

\* str.strip()
Strip(s) ==
    LET nz == {i \in 1..Len(s) : ~IsSpace(s[i])}
    IN  IF nz = {} THEN <<>>
        ELSE SubSeq(s, MinOf(nz), MaxOf(nz))

\* [p.strip() for p in parts if p.strip()]
RECURSIVE StripNonEmpty(_)
StripNonEmpty(parts) ==
    IF parts = <<>> THEN <<>>
    ELSE LET p == Strip(Head(parts))
         IN  IF p = <<>> THEN StripNonEmpty(Tail(parts))
             ELSE <<p>> \o StripNonEmpty(Tail(parts))

\* the subsequence of s at the indices K, in order
KeepIdx(s, K) ==
    IF K = 1..Len(s) THEN s
    ELSE [k \in 1..Cardinality(K) |->
            s[CHOOSE i \in K : Cardinality({j \in K : j < i}) = k - 1]]

\* first index >= i whose character is not in `class` (Len(s) + 1 if none)
SkipClass(s, i, class) ==
    LET rest == {j \in i..Len(s) : s[j] \notin class}
    IN  IF rest = {} THEN Len(s) + 1 ELSE MinOf(rest)

\* pattern.split(text) for a pattern matching one character of `seps`:
\* the parts of s from index `start` on
RECURSIVE SplitFrom(_, _, _)
SplitFrom(s, start, seps) ==
    LET cuts == {i \in start..Len(s) : s[i] \in seps}
    IN  IF cuts = {} THEN <<SubSeq(s, start, Len(s))>>
        ELSE <<SubSeq(s, start, MinOf(cuts) - 1)>> \o SplitFrom(s, MinOf(cuts) + 1, seps)

SplitChars(s, seps) == SplitFrom(s, 1, seps)

\* str.split(): the whitespace-delimited tokens
Tokens(s) == StripNonEmpty(SplitChars(s, WHITESPACE))

\* re.sub(r"\s", "", s)
RemoveSpace(s) == SelectSeq(s, LAMBDA c : ~IsSpace(c))

\* ------------------------------------------------------------------------
\* query_analyzer.py
\* ------------------------------------------------------------------------

\* text.replace("\r\n", "\n").replace("\r", "\n")
UnifyNewlines(s) ==
    LET crlf == {i \in 1..Len(s) : s[i] = CR /\ i < Len(s) /\ s[i + 1] = NL}
        t == KeepIdx(s, (1..Len(s)) \ crlf)
    IN  [i \in 1..Len(t) |-> IF t[i] = CR THEN NL ELSE t[i]]

\* re.sub(r"[ \t]+", " ", t)
CollapseBlanks(s) ==
    LET inRun == {i \in 1..Len(s) : s[i] \in {SP, TAB} /\ i > 1 /\ s[i - 1] \in {SP, TAB}}
        t == KeepIdx(s, (1..Len(s)) \ inRun)
    IN  [i \in 1..Len(t) |-> IF t[i] = TAB THEN SP ELSE t[i]]

\* _normalize (a None text is passed as the empty text)
Normalize(text) == CollapseBlanks(Strip(UnifyNewlines(text)))

SAMPLE_LEN == 300

\* fault: the German score counting the diacritics and the sharp s only
LangScoreGermanDiacriticsOnly(text, lang) ==
    IF text = <<>> THEN 0
    ELSE LET sample == SubSeq(text, 1, IF Len(text) < SAMPLE_LEN THEN Len(text) ELSE SAMPLE_LEN)
         IN  IF lang = "ko" THEN CountIn(sample, HANGUL_RANGE)
             ELSE IF lang = "zh" THEN CountIn(sample, CJK_RANGE)
             ELSE IF lang = "de" THEN CountIn(sample, GERMAN_CHAR)
             ELSE IF lang = "en" THEN CountIn(sample, LATIN_RANGE)
             ELSE 0

\* _lang_score
LangScore(text, lang) ==
    IF text = <<>> THEN 0
    ELSE LET sample == SubSeq(text, 1, IF Len(text) < SAMPLE_LEN THEN Len(text) ELSE SAMPLE_LEN)
         IN  IF lang = "ko" THEN CountIn(sample, HANGUL_RANGE)
             ELSE IF lang = "zh" THEN CountIn(sample, CJK_RANGE)
             ELSE IF lang = "de"
                  THEN CountIn(sample, GERMAN_CHAR) + CountIn(sample, LATIN_RANGE)
             ELSE IF lang = "en" THEN CountIn(sample, LATIN_RANGE)
             ELSE 0

PARAGRAPH_MIN_SENTENCES == 2
PARAGRAPH_MIN_LENGTH == 80

\* fault: the length test written as "length <= 80", which turns away a
\* text of exactly 80 characters
LooksLikeParagraphOver80(text, lang) ==
    IF text = <<>> THEN FALSE
    ELSE LET parts == IF lang = "zh" THEN SplitChars(text, SENT_TERM_ZH)
                      ELSE SplitChars(text, SENT_TERM_LATIN)
             sentences == StripNonEmpty(parts)
         IN  IF Len(sentences) < PARAGRAPH_MIN_SENTENCES THEN FALSE
             ELSE IF Len(text) <= PARAGRAPH_MIN_LENGTH THEN FALSE
             ELSE TRUE

\* _looks_like_paragraph
LooksLikeParagraph(text, lang) ==
    IF text = <<>> THEN FALSE
    ELSE LET parts == IF lang = "zh" THEN SplitChars(text, SENT_TERM_ZH)
                      ELSE SplitChars(text, SENT_TERM_LATIN)
             sentences == StripNonEmpty(parts)
         IN  IF Len(sentences) < PARAGRAPH_MIN_SENTENCES THEN FALSE
             ELSE IF Len(text) < PARAGRAPH_MIN_LENGTH THEN FALSE
             ELSE TRUE

\* re.split(r"(?<=[\.!?])\s+", text): cut at a run of whitespace that follows a
\* terminator; the run is dropped, the terminator stays with its sentence.
RECURSIVE SplitAfterTermWs1(_, _, _)
SplitAfterTermWs1(s, start, terms) ==
    LET cuts == {i \in start..Len(s) : IsSpace(s[i]) /\ i > 1 /\ s[i - 1] \in terms}
    IN  IF cuts = {} THEN <<SubSeq(s, start, Len(s))>>
        ELSE <<SubSeq(s, start, MinOf(cuts) - 1)>>
             \o SplitAfterTermWs1(s, SkipClass(s, MinOf(cuts), WHITESPACE), terms)

\* re.split(r"(?<=[。？！])\s*", text): cut right after every terminator (the
\* match may be empty), dropping the whitespace that follows it.
RECURSIVE SplitAfterTermWs0(_, _, _)
SplitAfterTermWs0(s, start, terms) ==
    LET cuts == {i \in (start + 1)..(Len(s) + 1) : s[i - 1] \in terms}
    IN  IF cuts = {} THEN <<SubSeq(s, start, Len(s))>>
        ELSE <<SubSeq(s, start, MinOf(cuts) - 1)>>
             \o SplitAfterTermWs0(s, SkipClass(s, MinOf(cuts), WHITESPACE), terms)

\* _split_sentences
SplitSentences(text, lang) ==
    IF text = <<>> THEN <<>>
    ELSE LET parts == IF lang = "zh" THEN SplitAfterTermWs0(text, 1, SENT_TERM_ZH)
                      ELSE SplitAfterTermWs1(text, 1, SENT_TERM_LATIN)
         IN  StripNonEmpty(parts)

\* _LIST_SPLIT_PATTERN.split(text): one separator character, or a run of newlines
RECURSIVE ListSplitFrom(_, _)
ListSplitFrom(s, start) ==
    LET cuts == {i \in start..Len(s) : s[i] \in LIST_SPLIT_CHARS \/ s[i] = NL}
        c == MinOf(cuts)
    IN  IF cuts = {} THEN <<SubSeq(s, start, Len(s))>>
        ELSE <<SubSeq(s, start, c - 1)>>
             \o ListSplitFrom(s, IF s[c] = NL THEN SkipClass(s, c, {NL}) ELSE c + 1)

\* _split_list_candidates
SplitListCandidates(text) == StripNonEmpty(ListSplitFrom(text, 1))

\* _has_sentence_punc
HasSentencePunc(text, lang) ==
    IF lang = "zh" THEN \E i \in 1..Len(text) : text[i] \in SENT_TERM_ZH
    ELSE \E i \in 1..Len(text) : text[i] \in SENT_TERM_LATIN

HasSpace(s) == \E i \in 1..Len(s) : IsSpace(s[i])

WORD_MAX_CHARS == 32
ZH_WORD_MAX_CHARS == 3

\* _is_word_like
IsWordLike(unit, lang) ==
    IF unit = <<>> THEN FALSE
    ELSE IF lang \in {"en", "de"}
         THEN IF HasSpace(unit) THEN FALSE ELSE Len(unit) <= WORD_MAX_CHARS
    ELSE IF lang = "ko" THEN ~HasSpace(unit)
    ELSE IF lang = "zh" THEN Len(RemoveSpace(unit)) <= ZH_WORD_MAX_CHARS
    ELSE ~HasSpace(unit)

WordLikeCount(items, lang) ==
    Cardinality({i \in 1..Len(items) : IsWordLike(items[i], lang)})

\* fault: the threshold test written with ">" instead of ">="
RatioAboveThreshold(count, n) == 10 * count > 7 * n

\* ratio >= 0.7 with ratio = word_like_count / len(items): the quotient of two
\* small integers is compared with the double nearest 0.7, which for every
\* list a query can hold decides as 10 * count >= 7 * len.
RatioAtLeastThreshold(count, n) == 10 * count >= 7 * n

\* _decide_list_type
DecideListType(items, lang) ==
    IF items = <<>> THEN "word_list"
    ELSE IF RatioAtLeastThreshold(WordLikeCount(items, lang), Len(items))
         THEN "word_list"
    ELSE "phrase_list"

KO_SENTENCE_MIN_LEN == 10
PUNC_SENTENCE_MIN_TOKENS == 3
CJK_PUNC_SENTENCE_MIN_LEN == 10
LONG_SENTENCE_MIN_TOKENS == 6
LONG_SENTENCE_MIN_LEN == 40
ZH_SENTENCE_MIN_CHARS == 20

\* the alternatives of the Korean sentence-final suffix pattern
\* (query_analyzer.py:203), as code-point sequences
KO_SUFFIXES ==
    { <<45796>>,                       \* -da
      <<51060, 45796>>,                \* -ida
      <<54664, 45796>>,                \* -haetda
      <<54633, 45768, 45796>>,         \* -hamnida
      <<54664, 49845, 45768, 45796>>,  \* -haetseumnida
      <<54664, 50612, 50836>>,         \* -haesseoyo
      <<51077, 45768, 45796>>,         \* -imnida
      <<51077, 45768, SP, 45796>>,     \* -imni da
      <<51064, 44032, 50836>>,         \* -ingayo
      <<51064, 44032>>,                \* -inga
      <<45348, 50836>>,                \* -neyo
      <<44400, 50836>>,                \* -gunyo
      <<44192, 50612, 50836>>,         \* -gesseoyo
      <<44192, 49845, 45768, 45796>> } \* -gesseumnida

\* the characters allowed after the suffix: ["'’”\)\s]*
KO_SUFFIX_TRAILERS ==
    {DOUBLE_QUOTE, APOSTROPHE, RIGHT_SINGLE_QUOTE, RIGHT_DOUBLE_QUOTE, RIGHT_PAREN} \cup WHITESPACE

EndsWith(s, suf) ==
    Len(s) >= Len(suf) /\ SubSeq(s, Len(s) - Len(suf) + 1, Len(s)) = suf

\* re.search(r"(...)[\"'’”\)\s]*$", stripped)
MatchesKoSuffix(stripped) ==
    \E n \in 0..Len(stripped) :
        /\ \A i \in (n + 1)..Len(stripped) : stripped[i] \in KO_SUFFIX_TRAILERS
        /\ \E suf \in KO_SUFFIXES : EndsWith(SubSeq(stripped, 1, n), suf)

\* fault: the Korean suffix rule applied to a text of any length
LooksLikeSentenceAnyLength(text, lang) ==
    IF text = <<>> THEN FALSE
    ELSE LET stripped == Strip(text)
             tokens == Tokens(stripped)
         IN  IF /\ lang = "ko"
                /\ ~HasSentencePunc(stripped, lang)
                /\ MatchesKoSuffix(stripped)
             THEN TRUE
             ELSE IF /\ HasSentencePunc(stripped, lang)
                     /\ \/ Len(tokens) >= PUNC_SENTENCE_MIN_TOKENS
                        \/ lang \in {"ko", "zh"} /\ Len(stripped) >= CJK_PUNC_SENTENCE_MIN_LEN
             THEN TRUE
             ELSE IF Len(tokens) >= LONG_SENTENCE_MIN_TOKENS /\ Len(stripped) >= LONG_SENTENCE_MIN_LEN
             THEN TRUE
             ELSE IF lang = "zh" /\ Len(RemoveSpace(stripped)) >= ZH_SENTENCE_MIN_CHARS
             THEN TRUE
             ELSE FALSE

\* _looks_like_sentence
LooksLikeSentence(text, lang) ==
    IF text = <<>> THEN FALSE
    ELSE LET stripped == Strip(text)
             tokens == Tokens(stripped)
         IN  IF /\ lang = "ko"
                /\ ~HasSentencePunc(stripped, lang)
                /\ Len(stripped) >= KO_SENTENCE_MIN_LEN
                /\ MatchesKoSuffix(stripped)
             THEN TRUE
             ELSE IF /\ HasSentencePunc(stripped, lang)
                     /\ \/ Len(tokens) >= PUNC_SENTENCE_MIN_TOKENS
                        \/ lang \in {"ko", "zh"} /\ Len(stripped) >= CJK_PUNC_SENTENCE_MIN_LEN
             THEN TRUE
             ELSE IF Len(tokens) >= LONG_SENTENCE_MIN_TOKENS /\ Len(stripped) >= LONG_SENTENCE_MIN_LEN
             THEN TRUE
             ELSE IF lang = "zh" /\ Len(RemoveSpace(stripped)) >= ZH_SENTENCE_MIN_CHARS
             THEN TRUE
             ELSE FALSE

\* fault: Chinese text decided by its tokens like the other languages
DecideWordOrPhraseByTokens(text, lang) ==
    IF text = <<>> THEN "word"
    ELSE IF Len(Tokens(text)) <= 1 THEN "word" ELSE "phrase"

\* _decide_word_or_phrase
DecideWordOrPhrase(text, lang) ==
    IF text = <<>> THEN "word"
    ELSE IF lang \in {"en", "de", "ko"}
         THEN IF Len(Tokens(text)) <= 1 THEN "word" ELSE "phrase"
    ELSE IF lang = "zh"
         THEN IF Len(RemoveSpace(text)) <= ZH_WORD_MAX_CHARS THEN "word" ELSE "phrase"
    ELSE IF Len(Tokens(text)) <= 1 THEN "word" ELSE "phrase"

\* the language decision of analyze_query (query_analyzer.py:272-284)
\* fault: a tie between the two scores resolved to the target language
DecideQueryLangTieToTarget(native_score, target_score, native, target) ==
    IF native_score > 0 \/ target_score > 0
    THEN IF native_score > target_score THEN native
         ELSE target
    ELSE native

\* fault: no query language for a text without characters of either language
DecideQueryLangAbsentWithoutScore(native_score, target_score, native, target) ==
    IF native_score > 0 \/ target_score > 0
    THEN IF native_score > target_score THEN native
         ELSE IF target_score > native_score THEN target
         ELSE native
    ELSE "None"

DecideQueryLang(native_score, target_score, native, target) ==
    IF native_score > 0 \/ target_score > 0
    THEN IF native_score > target_score THEN native
         ELSE IF target_score > native_score THEN target
         ELSE native
    ELSE native

QueryAnalysisResult(raw, normalized, qtype, units, qlang) ==
    [ok |-> TRUE, raw_query |-> raw, normalized_query |-> normalized,
     query_type |-> qtype, units |-> units, query_lang |-> qlang]

ValueError == [ok |-> FALSE, error |-> "ValueError"]

\* fault: a text taken as a list unless all of its items are sentence-like
AnalyzeQueryListUnlessAllSentences(q, native, target) ==
    LET raw_query == q    \* query or ""
        normalized == Normalize(raw_query)
    IN  IF normalized = <<>> THEN ValueError
        ELSE
        LET native_score == LangScore(normalized, native)
            target_score == LangScore(normalized, target)
            query_lang == DecideQueryLang(native_score, target_score, native, target)
            text == normalized
            sentences == SplitSentences(text, query_lang)
            list_items == SplitListCandidates(text)
            sentence_like_count ==
                Cardinality({i \in 1..Len(list_items) : LooksLikeSentence(list_items[i], query_lang)})
        IN  IF LooksLikeParagraph(text, query_lang) /\ sentences # <<>>
            THEN QueryAnalysisResult(raw_query, normalized, "paragraph", sentences, query_lang)
            ELSE IF Len(list_items) >= 2 /\ sentence_like_count < Len(list_items)
            THEN QueryAnalysisResult(raw_query, normalized,
                                     DecideListType(list_items, query_lang), list_items, query_lang)
            ELSE IF LooksLikeSentence(text, query_lang)
            THEN QueryAnalysisResult(raw_query, normalized, "sentence", <<text>>, query_lang)
            ELSE QueryAnalysisResult(raw_query, normalized,
                                     DecideWordOrPhrase(text, query_lang), <<text>>, query_lang)

\* analyze_query
AnalyzeQuery(q, native, target) ==
    LET raw_query == q    \* query or ""
        normalized == Normalize(raw_query)
    IN  IF normalized = <<>> THEN ValueError
        ELSE
        LET native_score == LangScore(normalized, native)
            target_score == LangScore(normalized, target)
            query_lang == DecideQueryLang(native_score, target_score, native, target)
            text == normalized
            sentences == SplitSentences(text, query_lang)
            list_items == SplitListCandidates(text)
            sentence_like_count ==
                Cardinality({i \in 1..Len(list_items) : LooksLikeSentence(list_items[i], query_lang)})
        IN  IF LooksLikeParagraph(text, query_lang) /\ sentences # <<>>
            THEN QueryAnalysisResult(raw_query, normalized, "paragraph", sentences, query_lang)
            ELSE IF Len(list_items) >= 2 /\ sentence_like_count = 0
            THEN QueryAnalysisResult(raw_query, normalized,
                                     DecideListType(list_items, query_lang), list_items, query_lang)
            ELSE IF LooksLikeSentence(text, query_lang)
            THEN QueryAnalysisResult(raw_query, normalized, "sentence", <<text>>, query_lang)
            ELSE QueryAnalysisResult(raw_query, normalized,
                                     DecideWordOrPhrase(text, query_lang), <<text>>, query_lang)

\* ------------------------------------------------------------------------
\* Strings of the request and of the answers (code-point sequences)
\* ------------------------------------------------------------------------
Str_dict == <<100, 105, 99, 116>>
Str_dictionary == <<100, 105, 99, 116, 105, 111, 110, 97, 114, 121>>
Str_encyclopedia == <<101, 110, 99, 121, 99, 108, 111, 112, 101, 100, 105, 97>>
Str_general == <<103, 101, 110, 101, 114, 97, 108>>
Str_finance == <<102, 105, 110, 97, 110, 99, 101>>
Str_master == <<109, 97, 115, 116, 101, 114>>
Str_doctor == <<100, 111, 99, 116, 111, 114>>
Str_high == <<104, 105, 103, 104>>

\* str.lower() on the ASCII letters
Lower(s) == [i \in 1..Len(s) |-> IF s[i] \in 65..90 THEN s[i] + 32 ELSE s[i]]

\* len() of the strings of the fixed vocabularies
StrLen(s) ==
    CASE s = "VALID" -> 5
      [] s = "TYPO" -> 4
      [] s = "FACTUAL_ERROR" -> 13
      [] s = "AMBIGUOUS" -> 9
      [] s = "NONSENSE" -> 8
      [] s = "word" -> 4
      [] s = "word_list" -> 9
      [] s = "phrase" -> 6
      [] s = "phrase_list" -> 11
      [] s = "sentence" -> 8
      [] s = "paragraph" -> 9
      [] s \in LangCode -> 2

\* len(str(n)) for a count n
Digits(n) == IF n < 10 THEN 1 ELSE IF n < 100 THEN 2 ELSE IF n < 1000 THEN 3 ELSE 4

QueryAnalysisStatus == {"VALID", "TYPO", "FACTUAL_ERROR", "AMBIGUOUS", "NONSENSE"}

\* dict.get(key) with the value used when the key is absent (or None)
Get(d, key, default) == IF key \in DOMAIN d THEN d[key] ELSE default

\* ------------------------------------------------------------------------
\* main.py: build_verifier_answer_text
\*
\* An answer is the model_dump() dictionary of the generator schema, with
\* every free-text value replaced by its length in characters (0 for an
\* empty or absent optional text) and every list by a sequence.  The
\* rendering is the sequence of appended lines; a line is its length and
\* the priority tier of the docstring (main.py:107-138) its content belongs
\* to: 1, 2 or 3, and 0 for headers and separators.
\* ------------------------------------------------------------------------
Ln(tier, len) == [tier |-> tier, len |-> len]

\* the src/tgt line pair of each example
RenderExamplePairs(examples, tier, prefix) ==
    Flatten([i \in 1..Len(examples) |->
        << Ln(tier, prefix + 15 + examples[i].source_sentence),      \* "        - src: "
           Ln(tier, prefix + 15 + examples[i].target_sentence) >>])  \* "          tgt: "

\* one "        - {alt}" line per alternative
RenderAltLines(alts, tier, lead) == [i \in 1..Len(alts) |-> Ln(tier, lead + alts[i])]

\* the word_explanations loop shared by both sentence renderers (main.py:192-217, 239-264)
RenderWordExplanation(we, include_word_core, include_word_examples, include_word_alternatives, prefix) ==
    (IF include_word_core
     THEN << Ln(2, prefix + 15 + we.l2_word),        \* "    · l2_word: "
             Ln(2, prefix + 18 + we.meaning_l1) >>   \* "      meaning_l1: "
          \o (IF Get(we, "explanation_l1", 0) > 0
              THEN <<Ln(2, prefix + 22 + we.explanation_l1)>>   \* "      explanation_l1: "
              ELSE <<>>)
     ELSE <<>>)
    \o (IF include_word_examples /\ Get(we, "examples", <<>>) # <<>>
        THEN <<Ln(3, prefix + 15)>>                  \* "      examples:"
             \o RenderExamplePairs(we.examples, 3, prefix)
        ELSE <<>>)
    \o (IF include_word_alternatives /\ Get(we, "alternatives_l2", <<>>) # <<>>
        THEN <<Ln(3, prefix + 22)>>                  \* "      alternatives_l2:"
             \o RenderAltLines(we.alternatives_l2, 3, prefix + 10)   \* "        - "
        ELSE <<>>)

RenderWordExplanations(word_expls, core, examples, alternatives, prefix) ==
    IF word_expls # <<>>
    THEN <<Ln(0, prefix + 20)>>                      \* "- word_explanations:"
         \o Flatten([i \in 1..Len(word_expls) |->
                RenderWordExplanation(word_expls[i], core, examples, alternatives, prefix)])
    ELSE <<>>

\* render_sentence_l1_to_l2
RenderSentenceL1toL2(s, word_expls, core, examples, alternatives, prefix) ==
    << Ln(0, prefix + 20),                           \* "L1→L2 SENTENCE BLOCK"
       Ln(1, prefix + 15 + s.l1_sentence),           \* "- l1_sentence: "
       Ln(1, prefix + 20 + s.main_l2_sentence) >>    \* "- main_l2_sentence: "
    \o RenderWordExplanations(word_expls, core, examples, alternatives, prefix)

\* render_sentence_l2_to_l1
RenderSentenceL2toL1(s, word_expls, core, examples, alternatives, prefix) ==
    << Ln(0, prefix + 20),                           \* "L2→L1 SENTENCE BLOCK"
       Ln(1, prefix + 15 + s.l2_sentence),           \* "- l2_sentence: "
       Ln(1, prefix + 20 + s.main_l1_sentence) >>    \* "- main_l1_sentence: "
    \o (IF Get(s, "sentence_explanation_l1", 0) > 0
        THEN <<Ln(1, prefix + 27 + s.sentence_explanation_l1)>>  \* "- sentence_explanation_l1: "
        ELSE <<>>)
    \o RenderWordExplanations(word_expls, core, examples, alternatives, prefix)

\* one variant of a word entry (main.py:288-316)
RenderVariant(var, j) ==
    LET alt_list == Get(var, "alternatives", <<>>)
        examples == Get(var, "examples", <<>>)
    IN  << Ln(0, 15 + Digits(j)),                    \* "    - Variant #{j+1}"
           Ln(1, 19 + var.target_text) >>            \* "      target_text: "
        \o (IF Get(var, "explanation", 0) > 0
            THEN <<Ln(1, 19 + var.explanation)>>     \* "      explanation: "
            ELSE <<>>)
        \o (IF alt_list # <<>>
            THEN <<Ln(2, 19)>>                       \* "      alternatives:"
                 \o RenderAltLines(alt_list, 2, 10)  \* "        - "
            ELSE <<>>)
        \o (IF examples # <<>>
            THEN <<Ln(2, 14)>>                       \* "      example:"
                 \o RenderExamplePairs(<<Head(examples)>>, 2, 0)
            ELSE <<>>)
        \o (IF Len(examples) > 1
            THEN <<Ln(3, 21)>>                       \* "      extra_examples:"
                 \o RenderExamplePairs(Tail(examples), 3, 0)
            ELSE <<>>)

\* one word entry (main.py:278-317)
RenderEntry(ent, idx) ==
    LET variants == Get(ent, "variants", <<>>)
    IN  << Ln(0, 9 + Digits(idx)),                   \* "- Entry #{idx+1}"
           Ln(1, 15 + ent.source_text),              \* "  source_text: "
           Ln(1, 15 + StrLen(ent.source_lang) + 15 + StrLen(ent.target_lang)),
                                                     \* "  source_lang: .., target_lang: .."
           Ln(0, 18 + Digits(Len(variants))) >>      \* "  variants_count: "
        \o Flatten([j \in 1..Len(variants) |-> RenderVariant(variants[j], j)])
        \o <<Ln(0, 0)>>

\* dict mode, word / word_list / phrase / phrase_list (main.py:274-317)
RenderWordEntries(data) ==
    LET entries == Get(data, "entries", <<>>)
    IN  <<Ln(0, 21)>>                                \* "[WORD/PHRASE ENTRIES]"
        \o Flatten([i \in 1..Len(entries) |-> RenderEntry(entries[i], i)])

\* dict mode, sentence (main.py:322-361); an entry validated against one of the
\* two sentence schemas always takes one of the first two branches
RenderSentenceMode(data) ==
    LET sent_block == Get(data, "sentence", [empty |-> TRUE])
        word_expls == Get(data, "word_explanations", <<>>)
        alts == Get(sent_block, "alternative_l2_sentences", <<>>)
    IN  <<Ln(0, 15)>>                                \* "[SENTENCE MODE]"
        \o (IF "l1_sentence" \in DOMAIN sent_block
            THEN RenderSentenceL1toL2(sent_block, word_expls, TRUE, TRUE, TRUE, 0)
                 \o (IF alts # <<>>
                     THEN <<Ln(3, 25)>>              \* "alternative_l2_sentences:"
                          \o RenderAltLines(alts, 3, 2)   \* "- "
                     ELSE <<>>)
            ELSE RenderSentenceL2toL1(sent_block, word_expls, TRUE, TRUE, TRUE, 0))
        \o <<Ln(0, 0)>>

\* one sentence card of a paragraph (main.py:383-405, 427-440)
RenderCardL1toL2(card, i) ==
    LET sent_block == Get(card, "sentence", [empty |-> TRUE])
        we == Get(card, "word_explanations", <<>>)
        alts == Get(sent_block, "alternative_l2_sentences", <<>>)
    IN  <<Ln(0, 19 + Digits(i) + 4)>>                \* "--- Sentence Card #{i+1} ---"
        \o RenderSentenceL1toL2(sent_block, we, TRUE, TRUE, TRUE, 2)
        \o (IF alts # <<>>
            THEN <<Ln(3, 27)>>                       \* "  alternative_l2_sentences:"
                 \o RenderAltLines(alts, 3, 6)       \* "    - "
            ELSE <<>>)

RenderCardL2toL1(card, i) ==
    LET sent_block == Get(card, "sentence", [empty |-> TRUE])
        we == Get(card, "word_explanations", <<>>)
    IN  <<Ln(0, 19 + Digits(i) + 4)>>                \* "--- Sentence Card #{i+1} ---"
        \o RenderSentenceL2toL1(sent_block, we, TRUE, TRUE, TRUE, 2)

\* dict mode, paragraph (main.py:366-444); an entry validated against one of the
\* two paragraph schemas always takes one of the first two branches
RenderParagraphMode(data) ==
    LET sentence_cards == Get(data, "sentence_cards", <<>>)
    IN  <<Ln(0, 16)>>                                \* "[PARAGRAPH MODE]"
        \o (IF "l1_paragraph" \in DOMAIN data
            THEN << Ln(0, 44),                       \* "Direction: L1 → L2 (ParagraphL1toL2Response)"
                    Ln(0, 13),                       \* "L1 paragraph:"
                    Ln(1, data.l1_paragraph),
                    Ln(1, 9 + StrLen(data.l1_lang) + 11 + StrLen(data.l2_lang)),
                                                     \* "l1_lang: .., l2_lang: .."
                    Ln(0, 0),
                    Ln(0, 23) >>                     \* "Sentence cards (L1→L2):"
                 \o Flatten([i \in 1..Len(sentence_cards) |->
                        RenderCardL1toL2(sentence_cards[i], i)])
            ELSE << Ln(0, 44),                       \* "Direction: L2 → L1 (ParagraphL2toL1Response)"
                    Ln(0, 13),                       \* "L2 paragraph:"
                    Ln(1, data.l2_paragraph),
                    Ln(1, 9 + StrLen(data.l2_lang) + 11 + StrLen(data.l1_lang)),
                                                     \* "l2_lang: .., l1_lang: .."
                    Ln(0, 0),
                    Ln(0, 44),                       \* "Paragraph-level translation and explanation:"
                    Ln(1, 28 + data.paragraph_l1_translation) >>
                                                     \* "- paragraph_l1_translation: "
                 \o (IF Get(data, "paragraph_content_explanation_l1", 0) > 0
                     THEN <<Ln(1, 36 + data.paragraph_content_explanation_l1)>>
                                                     \* "- paragraph_content_explanation_l1: "
                     ELSE <<>>)
                 \o << Ln(0, 0),
                       Ln(0, 23) >>                  \* "Sentence cards (L2→L1):"
                 \o Flatten([i \in 1..Len(sentence_cards) |->
                        RenderCardL2toL1(sentence_cards[i], i)]))

\* encyclopedia mode (main.py:449-489)
RenderEncyclopedia(data) ==
    LET key_terms == Get(data, "key_terms", <<>>)
        with_analogy == SelectSeq(key_terms, LAMBDA kt : Get(kt, "analogy", 0) > 0)
    IN  <<Ln(0, 21)>>                                \* "[ENCYCLOPEDIA ANSWER]"
        \o (IF key_terms # <<>>
            THEN <<Ln(0, 10)>>                       \* "key_terms:"
                 \o Flatten([i \in 1..Len(key_terms) |->
                        << Ln(1, 8 + key_terms[i].term),            \* "- term: "
                           Ln(1, 14 + key_terms[i].definition) >>]) \* "  definition: "
            ELSE <<>>)
        \o << Ln(0, 0),
              Ln(0, 23),                             \* "simplified_explanation:"
              Ln(1, Get(data, "simplified_explanation", 0)) >>
        \o (IF Get(data, "input_text", 0) > 0
            THEN <<Ln(0, 0), Ln(0, 11), Ln(2, data.input_text)>>     \* "input_text:"
            ELSE <<>>)
        \o (IF Get(data, "usage_context", 0) > 0
            THEN <<Ln(0, 0), Ln(0, 14), Ln(2, data.usage_context)>>  \* "usage_context:"
            ELSE <<>>)
        \o (IF with_analogy # <<>>
            THEN <<Ln(0, 0), Ln(0, 19)>>             \* "key_term_analogies:"
                 \o Flatten([i \in 1..Len(with_analogy) |->
                        << Ln(3, 8 + with_analogy[i].term),         \* "- term: "
                           Ln(3, 11 + with_analogy[i].analogy) >>]) \* "  analogy: "
            ELSE <<>>)
        \o (IF Get(data, "extra_notes", 0) > 0
            THEN <<Ln(0, 0), Ln(0, 12), Ln(3, data.extra_notes)>>    \* "extra_notes:"
            ELSE <<>>)

\* the query_analysis block of an answer: at top level, else inside "sentence"
\* (main.py:157-162, 583-591); None if neither holds it
QueryAnalysisOf(data) ==
    IF "query_analysis" \in DOMAIN data THEN data.query_analysis
    ELSE IF "sentence" \in DOMAIN data /\ "query_analysis" \in DOMAIN data.sentence
         THEN data.sentence.query_analysis
    ELSE None

\* the common header (main.py:154-172)
RenderHeader(data, mode_norm, qtype) ==
    LET qa_dict == QueryAnalysisOf(data)
    IN  << Ln(0, 38),                                \* "[AdapDict answer summary for Verifier]"
           Ln(0, 5 + Len(mode_norm) + 13 + StrLen(qtype)) >>   \* "mode=.., query_type=.."
        \o (IF "status" \in DOMAIN qa_dict
            THEN <<Ln(0, 22 + StrLen(qa_dict.status))>>        \* "query_analysis.status="
            ELSE <<>>)
        \o (IF "reason_l1" \in DOMAIN qa_dict
            THEN <<Ln(0, 25 + qa_dict.reason_l1)>>             \* "query_analysis.reason_l1="
            ELSE <<>>)
        \o <<Ln(0, 0)>>

\* the lines appended before the cut (main.py:147-489)
VerifierLines(data, mode_, query_type) ==
    LET mode_norm == Lower(Strip(mode_))
        qtype == query_type
    IN  RenderHeader(data, mode_norm, qtype)
        \o (IF mode_norm = Str_dict
            THEN IF qtype \in {"word", "word_list", "phrase", "phrase_list"}
                 THEN RenderWordEntries(data)
                 ELSE IF qtype = "sentence" THEN RenderSentenceMode(data)
                 ELSE RenderParagraphMode(data)
            ELSE RenderEncyclopedia(data))

RECURSIVE SumLens(_)
SumLens(lines) == IF lines = <<>> THEN 0 ELSE Head(lines).len + SumLens(Tail(lines))

\* len("\n".join(lines))
JoinedLen(lines) == IF lines = <<>> THEN 0 ELSE SumLens(lines) + Len(lines) - 1

MAX_CHARS == 4000
TRUNCATION_MARKER_LEN == 29     \* len("\n... [TRUNCATED FOR VERIFIER]")

\* fault: a rendering of exactly MAX_CHARS characters cut and marked too
CutForVerifierAtLimit(lines) ==
    LET full == JoinedLen(lines)
    IN  IF full >= MAX_CHARS
        THEN [lines |-> lines, truncated |-> TRUE, kept |-> MAX_CHARS,
              length |-> MAX_CHARS + TRUNCATION_MARKER_LEN]
        ELSE [lines |-> lines, truncated |-> FALSE, kept |-> full, length |-> full]

\* the hard cut (main.py:494-499)
CutForVerifier(lines) ==
    LET full == JoinedLen(lines)
    IN  IF full > MAX_CHARS
        THEN [lines |-> lines, truncated |-> TRUE, kept |-> MAX_CHARS,
              length |-> MAX_CHARS + TRUNCATION_MARKER_LEN]
        ELSE [lines |-> lines, truncated |-> FALSE, kept |-> full, length |-> full]

\* build_verifier_answer_text: the rendered lines, how many characters of
\* their join are kept, whether the marker was appended, and the length of
\* the returned text
BuildVerifierAnswerText(data, mode_, query_type) ==
    CutForVerifier(VerifierLines(data, mode_, query_type))

\* ------------------------------------------------------------------------
\* schemas/verifier/common.py: VerifierResult
\*
\* hallucination_score is a float in [0.0, 1.0]; the model keeps it in
\* hundredths, so the threshold 0.4 is 40.
\* ------------------------------------------------------------------------
VerifierResult(has_hallucination, hallucination_score, type, comment) ==
    [has_hallucination |-> has_hallucination,
     hallucination_score |-> hallucination_score,
     type |-> type,
     comment |-> comment]

\* fault: a score equal to the threshold counted as unsafe
IsSafeBelowThreshold(self, threshold) ==
    (~self.has_hallucination) \/ (self.hallucination_score < threshold)

\* VerifierResult.is_safe
IsSafe(self, threshold) ==
    (~self.has_hallucination) \/ (self.hallucination_score <= threshold)

\* VerifierResult.needs_regeneration
NeedsRegeneration(self, threshold) == ~IsSafe(self, threshold)

VERIFIER_HALLUCINATION_THRESHOLD == 40

\* ------------------------------------------------------------------------
\* utils/verifier_client.py: run_verifier
\*
\* The verifier service answers a call in one of these ways:
\*   raises      generate_content raises
\*   parsed      response.parsed is a VerifierResult
\*   text        response.parsed is None and response.text is JSON that
\*               validates as a VerifierResult
\*   bad_text    response.parsed is None and response.text is non-blank but
\*               fails validation (ValidationError)
\*   empty       response.parsed is None and response.text is None or blank
\* ------------------------------------------------------------------------
NeutralVerdict == VerifierResult(FALSE, 0, "none", 0)

\* fault: a failed verification counted as a finding (fail closed)
RunVerifierFailClosed(reply) ==
    IF reply.kind \in {"parsed", "text"} THEN reply.result
    ELSE VerifierResult(TRUE, 100, "factual", 0)

RunVerifier(reply) ==
    IF reply.kind = "raises" THEN NeutralVerdict          \* except Exception
    ELSE IF reply.kind = "parsed" THEN reply.result
    ELSE IF reply.kind = "text" THEN reply.result         \* model_validate_json
    ELSE IF reply.kind = "bad_text" THEN NeutralVerdict   \* except ValidationError
    ELSE NeutralVerdict                                   \* empty: early return

\* ------------------------------------------------------------------------
\* main.py: select_schema, _extract_query_analysis_status, api_search
\* ------------------------------------------------------------------------
\* fault: the two directions of a sentence or paragraph exchanged
SelectSchemaSwapped(mode_, analysis_, native) ==
    IF mode_ = Str_encyclopedia THEN "EncyclopediaResponse"
    ELSE IF analysis_.query_type \in {"word", "word_list", "phrase", "phrase_list"}
         THEN "WordDictResponse"
    ELSE IF analysis_.query_type = "sentence"
         THEN IF native = analysis_.query_lang
              THEN "SentenceL2toL1Response" ELSE "SentenceL1toL2Response"
    ELSE IF native = analysis_.query_lang
         THEN "ParagraphL2toL1Response" ELSE "ParagraphL1toL2Response"

SelectSchema(mode_, analysis_, native) ==
    IF mode_ = Str_encyclopedia THEN "EncyclopediaResponse"
    ELSE IF analysis_.query_type \in {"word", "word_list", "phrase", "phrase_list"}
         THEN "WordDictResponse"
    ELSE IF analysis_.query_type = "sentence"
         THEN IF native = analysis_.query_lang
              THEN "SentenceL1toL2Response" ELSE "SentenceL2toL1Response"
    ELSE IF native = analysis_.query_lang
         THEN "ParagraphL1toL2Response" ELSE "ParagraphL2toL1Response"

\* fault: the block looked for at top level only
ExtractQueryAnalysisStatusTopLevelOnly(entry_) ==
    IF "query_analysis" \in DOMAIN entry_ /\ "status" \in DOMAIN entry_.query_analysis
    THEN entry_.query_analysis.status ELSE "None"

\* _extract_query_analysis_status: the status string, or None
ExtractQueryAnalysisStatus(entry_) ==
    LET qa_dict == QueryAnalysisOf(entry_)
    IN  IF "status" \in DOMAIN qa_dict THEN qa_dict.status ELSE "None"

\* `value or default`: None, a missing key and "" are all falsy
OrDefault(value, default) == IF value = <<>> THEN default ELSE value

\* fault: only a NONSENSE answer returned without verification
SkipsVerifierOnNonsenseOnly(qa_status_value) == qa_status_value = "NONSENSE"

\* qa_status_value != "VALID": the answer is returned as it is (main.py:714)
SkipsVerifier(qa_status_value) == qa_status_value # "VALID"

\* fault: the emptiness test made on the query as sent, blanks included
QueryTextUntrimmed(data) == OrDefault(data.query, <<>>)

\* (data.get("query") or "").strip() (main.py:611)
QueryText(data) == Strip(OrDefault(data.query, <<>>))

\* `value or default` for the language codes, "" standing for a missing one
OrDefaultLang(value, default) == IF value = "" THEN default ELSE value

\* the model chosen for the education code (main.py:626-630)
SelectLlm(education_) ==
    IF education_ \in {Str_master, Str_doctor}
    THEN "models/gemini-2.5-flash" ELSE "models/gemini-2.5-flash-lite"

\* fault: in dict mode the pair (L1, L2) whatever the query language is
VerifierLangsNativeFirst(mode_, analysis_, L1, L2) ==
    IF mode_ = Str_dict
    THEN [source_lang |-> L1, target_lang |-> L2]
    ELSE [source_lang |-> analysis_.query_lang, target_lang |-> "None"]

\* the language pair handed to the verifier (main.py:731-752)
VerifierLangs(mode_, analysis_, L1, L2) ==
    IF mode_ = Str_dict
    THEN IF analysis_.query_type \in
              {"word", "word_list", "phrase", "phrase_list", "sentence", "paragraph"}
         THEN IF analysis_.query_lang = L1
              THEN [source_lang |-> L1, target_lang |-> L2]
              ELSE [source_lang |-> analysis_.query_lang, target_lang |-> L1]
         ELSE [source_lang |-> analysis_.query_lang, target_lang |-> "None"]
    ELSE [source_lang |-> analysis_.query_lang, target_lang |-> "None"]

\* ------------------------------------------------------------------------
\* prompt_rule.py: the instruction text, as the sequence of its blocks
\* ------------------------------------------------------------------------
\* _normalize_mode
NormalizeMode(mode_) ==
    IF Lower(Strip(mode_)) \in {Str_dict, Str_dictionary} THEN "dict" ELSE "encyclopedia"

\* fault: the target language tested before the native language
DirectionTargetFirst(query_lang, native, target) ==
    IF query_lang = target THEN "target_to_native"
    ELSE "native_to_target"

\* _direction
Direction(query_lang, native, target) ==
    IF query_lang = native THEN "native_to_target"
    ELSE IF query_lang = target THEN "target_to_native"
    ELSE "native_to_target"

\* the level _education_label and _level_guidance find for an education
\* code: both look up (education or "").strip().lower()
EducationTier(education_) ==
    LET e == Lower(Strip(education_))
    IN  IF e = <<101, 108, 101, 109, 101, 110, 116, 97, 114, 121>> THEN "elementary"
        ELSE IF e = <<109, 105, 100, 100, 108, 101>> THEN "middle"
        ELSE IF e = Str_high THEN "high"
        ELSE IF e = <<98, 97, 99, 104, 101, 108, 111, 114>> THEN "bachelor"
        ELSE IF e = Str_master THEN "master"
        ELSE IF e = Str_doctor THEN "doctor"
        ELSE "intermediate adult"

\* domain_block (prompt_rule.py:213-256)
DomainBlock(m, field_) ==
    LET field_norm == Lower(Strip(field_))
    IN  [block |-> "domain",
         rule |-> IF m = "dict"
                  THEN IF field_norm = <<>> \/ field_norm = Str_general
                       THEN "dictionary, general field"
                       ELSE "dictionary, field-exclusive"
                  ELSE "encyclopedia, field-weighted",
         field |-> field_]

\* the task body (prompt_rule.py:381-683)
TaskBody(m, direction, qtype) ==
    LET is_list == qtype \in {"word_list", "phrase_list", "paragraph"}
        is_lexical == qtype \in {"word", "word_list", "phrase", "phrase_list"}
    IN  [block |-> "task",
         mode |-> m,
         direction |-> IF m = "encyclopedia" THEN "none" ELSE direction,
         task |->
            IF m = "encyclopedia" THEN "Encyclopedia-style explanation"
            ELSE IF direction = "native_to_target"
                 THEN IF is_lexical
                      THEN IF is_list
                           THEN "Bilingual dictionary for multiple lexical items"
                           ELSE "Bilingual dictionary for a single lexical item"
                      ELSE IF is_list
                           THEN "Sentence-level translation and explanation for multiple sentences"
                           ELSE "Sentence translation and enhancement"
                 ELSE IF is_lexical
                      THEN IF is_list
                           THEN "Understanding-focused dictionary for multiple L2 lexical items"
                           ELSE "Understanding-focused dictionary for a single L2 lexical item"
                      ELSE IF is_list
                           THEN "Comprehension and explanation for multiple L2 sentences"
                           ELSE "Comprehension and refinement for a single L2 sentence"]

\* generate_prompt_rule: header + body, the header being the f-string of
\* prompt_rule.py:262-375 with its blocks in the order they are written
GeneratePromptRule(analysis_, education_, field_, mode_, native, target) ==
    LET m == NormalizeMode(mode_)
        direction == Direction(analysis_.query_lang, native, target)
        header ==
            << [block |-> "preamble", native_lang |-> native, target_lang |-> target,
                edu_label |-> EducationTier(education_), education |-> education_,
                field |-> field_, query_type |-> analysis_.query_type, mode |-> m],
               [block |-> "level", tier |-> EducationTier(education_)],
               DomainBlock(m, field_),
               [block |-> "validation", native_lang |-> native],
               [block |-> "important"] >>
    IN  header \o <<TaskBody(m, direction, analysis_.query_type)>>

\* one line of the correction block
CorrectionLine(text) == [block |-> "correction", line |-> text]

\* fault: the feedback-aware block ending before its rule 8
BuildRegenerationInstructionNoSchemaRule(feedback_comment, field_, mode_) ==
    LET field_norm == Lower(Strip(field_))
        base_header ==
            << CorrectionLine("You must regenerate a NEW answer for the same user query, fully obeying the following rules:"),
               CorrectionLine("1) You MUST fix ALL issues identified by the internal verifier."),
               CorrectionLine("2) You MUST NOT repeat any mistaken senses, alternatives, or examples.") >>
        field_block ==
            IF mode_ = Str_dict /\ field_norm # <<>> /\ field_norm # Str_general
            THEN << [block |-> "correction",
                     line |-> "3) The dictionary mode is FIELD-EXCLUSIVE. The field is '{field}'.",
                     field |-> field_norm],
                    CorrectionLine("   -> You MUST output ONLY meanings, explanations, examples, and alternatives belonging to the '{field}' domain."),
                    CorrectionLine("   -> ANY general or out-of-field sense MUST be removed."),
                    CorrectionLine("   -> Example: if field='finance', general meanings like 'interest = curiosity' MUST NOT appear.") >>
            ELSE IF mode_ = Str_dict /\ (field_norm = <<>> \/ field_norm = Str_general)
            THEN << CorrectionLine("3) The dictionary mode is in GENERAL field."),
                    CorrectionLine("   -> You MUST focus on the general, most common everyday senses of the query."),
                    CorrectionLine("   -> You MUST NOT restrict the meaning to a narrow technical sub-domain"),
                    CorrectionLine("      (e.g., do not focus only on finance, law, or medicine unless the query itself clearly demands it).") >>
            ELSE << >>
    IN  IF feedback_comment = 0
        THEN base_header \o field_block
             \o << CorrectionLine("4) Regenerate the answer cleanly and concisely."),
                   CorrectionLine("5) Do NOT add unnecessary information."),
                   CorrectionLine("6) The JSON structure of the answer MUST follow the original schema.") >>
        ELSE base_header \o field_block
             \o << CorrectionLine("4) The internal verifier found the following issue(s):"),
                   [block |-> "correction", line |-> "   {feedback_comment}",
                    feedback_comment |-> feedback_comment],
                   CorrectionLine("5) You MUST explicitly correct the above issues."),
                   CorrectionLine("6) You MUST NOT reintroduce the same incorrect senses, examples, or alternatives."),
                   CorrectionLine("7) Do NOT add irrelevant or unnecessary information.") >>

\* build_regeneration_instruction (main.py:501-560): the lines of the text it
\* returns, a comment being its length (0 for the empty one, which is falsy)
BuildRegenerationInstruction(feedback_comment, field_, mode_) ==
    LET field_norm == Lower(Strip(field_))
        base_header ==
            << CorrectionLine("You must regenerate a NEW answer for the same user query, fully obeying the following rules:"),
               CorrectionLine("1) You MUST fix ALL issues identified by the internal verifier."),
               CorrectionLine("2) You MUST NOT repeat any mistaken senses, alternatives, or examples.") >>
        field_block ==
            IF mode_ = Str_dict /\ field_norm # <<>> /\ field_norm # Str_general
            THEN << [block |-> "correction",
                     line |-> "3) The dictionary mode is FIELD-EXCLUSIVE. The field is '{field}'.",
                     field |-> field_norm],
                    CorrectionLine("   -> You MUST output ONLY meanings, explanations, examples, and alternatives belonging to the '{field}' domain."),
                    CorrectionLine("   -> ANY general or out-of-field sense MUST be removed."),
                    CorrectionLine("   -> Example: if field='finance', general meanings like 'interest = curiosity' MUST NOT appear.") >>
            ELSE IF mode_ = Str_dict /\ (field_norm = <<>> \/ field_norm = Str_general)
            THEN << CorrectionLine("3) The dictionary mode is in GENERAL field."),
                    CorrectionLine("   -> You MUST focus on the general, most common everyday senses of the query."),
                    CorrectionLine("   -> You MUST NOT restrict the meaning to a narrow technical sub-domain"),
                    CorrectionLine("      (e.g., do not focus only on finance, law, or medicine unless the query itself clearly demands it).") >>
            ELSE << >>
    IN  IF feedback_comment = 0
        THEN base_header \o field_block
             \o << CorrectionLine("4) Regenerate the answer cleanly and concisely."),
                   CorrectionLine("5) Do NOT add unnecessary information."),
                   CorrectionLine("6) The JSON structure of the answer MUST follow the original schema.") >>
        ELSE base_header \o field_block
             \o << CorrectionLine("4) The internal verifier found the following issue(s):"),
                   [block |-> "correction", line |-> "   {feedback_comment}",
                    feedback_comment |-> feedback_comment],
                   CorrectionLine("5) You MUST explicitly correct the above issues."),
                   CorrectionLine("6) You MUST NOT reintroduce the same incorrect senses, examples, or alternatives."),
                   CorrectionLine("7) Do NOT add irrelevant or unnecessary information."),
                   CorrectionLine("8) The final output MUST strictly match the original required JSON schema.") >>

\* jsonify(...), status
Reply(status, body) == [status |-> status, body |-> body]
EmptyQueryReply == Reply(400, [error |-> "Query is empty."])
ServerErrorReply(e) == Reply(500, [error |-> e])

\* ------------------------------------------------------------------------
\* schemas/generator: the answer shapes, as model_dump() gives them, every
\* text being its length.  `a` is the length of every text but one, `b` the
\* length of the last high-priority text of the shape.
\* ------------------------------------------------------------------------
QueryAnalysisBlock(status, reason_l1) ==
    [status |-> status, reason_l1 |-> reason_l1, suggestion_queries |-> <<>>]

ExampleItem(a) == [source_sentence |-> a, target_sentence |-> a]

WordVariant(target_text, nEx, nAlt, a) ==
    [target_text |-> target_text, explanation |-> a,
     examples |-> [i \in 1..nEx |-> ExampleItem(a)],
     alternatives |-> [i \in 1..nAlt |-> a]]

WordDictResponse(status, nE, nV, nEx, nAlt, a, b) ==
    [query_analysis |-> QueryAnalysisBlock(status, a),
     entries |-> [e \in 1..nE |->
        [source_text |-> a, source_lang |-> "ko", target_lang |-> "en",
         variants |-> [v \in 1..nV |->
            WordVariant(IF e = nE /\ v = nV THEN b ELSE a, nEx, nAlt, a)]]]]

WordExplanationItem(meaning_l1, nEx, nAlt, a) ==
    [l2_word |-> a, meaning_l1 |-> meaning_l1, explanation_l1 |-> a,
     examples |-> [i \in 1..nEx |-> ExampleItem(a)],
     alternatives_l2 |-> [i \in 1..nAlt |-> a]]

WordExplanationItems(nW, nEx, nAlt, a, b) ==
    [w \in 1..nW |-> WordExplanationItem(IF w = nW THEN b ELSE a, nEx, nAlt, a)]

SentenceL1toL2Response(status, nW, nEx, nAlt, a, b) ==
    [query_analysis |-> QueryAnalysisBlock(status, a),
     sentence |-> [l1_sentence |-> a, l1_lang |-> "ko", l2_lang |-> "en",
                   main_l2_sentence |-> a,
                   alternative_l2_sentences |-> [i \in 1..nAlt |-> a]],
     l2_focus_sentence |-> a,
     word_explanations |-> WordExplanationItems(nW, nEx, nAlt, a, b)]

SentenceL2toL1Response(status, nW, nEx, nAlt, a, b) ==
    [sentence |-> [query_analysis |-> QueryAnalysisBlock(status, a),
                   l2_sentence |-> a, l2_lang |-> "en", l1_lang |-> "ko",
                   main_l1_sentence |-> a, sentence_explanation_l1 |-> a],
     l2_focus_sentence |-> a,
     word_explanations |-> WordExplanationItems(nW, nEx, nAlt, a, b)]

ParagraphL1toL2Response(status, nC, nW, nEx, nAlt, a, b) ==
    [query_analysis |-> QueryAnalysisBlock(status, a),
     l1_paragraph |-> a, l1_lang |-> "ko", l2_lang |-> "en",
     sentence_cards |-> [c \in 1..nC |->
        SentenceL1toL2Response(status, nW, nEx, nAlt, a, IF c = nC THEN b ELSE a)]]

ParagraphL2toL1Response(status, nC, nW, nEx, nAlt, a, b) ==
    [query_analysis |-> QueryAnalysisBlock(status, a),
     l2_paragraph |-> a, l2_lang |-> "en", l1_lang |-> "ko",
     paragraph_l1_translation |-> a, paragraph_content_explanation_l1 |-> a,
     sentence_cards |-> [c \in 1..nC |->
        SentenceL2toL1Response(status, nW, nEx, nAlt, a, IF c = nC THEN b ELSE a)]]

EncyclopediaResponse(status, nK, withOptional, a, b) ==
    [query_analysis |-> QueryAnalysisBlock(status, a),
     input_text |-> a,
     key_terms |-> [k \in 1..nK |->
        [term |-> a, definition |-> a, analogy |-> IF withOptional THEN a ELSE 0]],
     simplified_explanation |-> b,
     usage_context |-> IF withOptional THEN a ELSE 0,
     extra_notes |-> IF withOptional THEN a ELSE 0]


\* ------------------------------------------------------------------------
\* The /api/search pipeline (main.py:606-817)
\* ------------------------------------------------------------------------
Str_Encyclopedia == <<69>> \o Tail(Str_encyclopedia)    \* "Encyclopedia"

\* query texts of the requests: missing, blank, a word, a word list,
\* a phrase, a phrase list, a sentence, a paragraph and a Hangul word
ParagraphHalfLen == 40
PipelineQueries ==
    { <<>>,
      <<SP, TAB>>,
      <<SP, LATIN_a, SP>>,
      <<LATIN_a, COMMA, LATIN_a>>,
      <<LATIN_a, SP, LATIN_a>>,
      <<LATIN_a, SP, LATIN_a, COMMA, LATIN_a, SP, LATIN_a>>,
      <<LATIN_a, SP, LATIN_a, SP, LATIN_a, FULL_STOP>>,
      Repeat(LATIN_a, ParagraphHalfLen) \o <<FULL_STOP, SP>>
          \o Repeat(LATIN_a, ParagraphHalfLen) \o <<FULL_STOP>>,
      <<HANGUL_GA>> }

Str_Master == <<77>> \o Tail(Str_master)                \* "Master"

\* a missing or null field of the body is the empty text; besides the
\* product of the common values, requests with an education code in
\* another letter case or with blanks around it, and requests naming one
\* language as both the native and the target language
Requests ==
    [query : PipelineQueries,
     education : {<<>>, Str_master, Str_high},
     field : {<<>>, Str_finance},
     mode : {<<>>, Str_dict, Str_dictionary, Str_encyclopedia, Str_Encyclopedia},
     langs : {<<"", "">>, <<"ko", "en">>, <<"en", "ko">>}]
    \cup [query : PipelineQueries,
          education : {Str_doctor, Str_Master, <<SP>> \o Str_master \o <<SP>>},
          field : {<<>>},
          mode : {Str_dict},
          langs : {<<"ko", "en">>}]
    \cup [query : PipelineQueries,
          education : {<<>>},
          field : {<<>>},
          mode : {Str_dict},
          langs : {<<"ko", "ko">>}]

\* answers the generation service may give for a schema
SampleLens == {3, 5}
SampleEntry(schema, status, a) ==
    CASE schema = "WordDictResponse" -> WordDictResponse(status, 1, 1, 1, 1, a, a)
      [] schema = "SentenceL1toL2Response" -> SentenceL1toL2Response(status, 1, 1, 1, a, a)
      [] schema = "SentenceL2toL1Response" -> SentenceL2toL1Response(status, 1, 1, 1, a, a)
      [] schema = "ParagraphL1toL2Response" -> ParagraphL1toL2Response(status, 1, 1, 1, 1, a, a)
      [] schema = "ParagraphL2toL1Response" -> ParagraphL2toL1Response(status, 1, 1, 1, 1, a, a)
      [] schema = "EncyclopediaResponse" -> EncyclopediaResponse(status, 1, TRUE, a, a)

\* replies of the generation service: it raises; response.parsed is an
\* instance of the schema; response.parsed is None and response.text
\* validates against the schema; or it does not validate
GeneratorReplies(schema) ==
    {[kind |-> "raises"], [kind |-> "bad_text"]}
    \cup {[kind |-> k, entry |-> SampleEntry(schema, st, a)] :
            k \in {"parsed", "text"}, st \in QueryAnalysisStatus, a \in SampleLens}

\* replies of the verifier service
VerdictScores == {0, 40, 41, 100}
CommentLens == {0, 7}
Verdicts ==
    {VerifierResult(h, sc, IF h THEN "factual" ELSE "none", IF h THEN c ELSE 0) :
        h \in BOOLEAN, sc \in VerdictScores, c \in CommentLens}
VerifierReplies ==
    {[kind |-> "raises"], [kind |-> "bad_text"], [kind |-> "empty"]}
    \cup {[kind |-> k, result |-> v] : k \in {"parsed", "text"}, v \in Verdicts}

\* fault: response.text never tried when response.parsed is None
ParseGeneratorResponseParsedOnly(reply) ==
    IF reply.kind = "parsed" THEN reply.entry ELSE None

\* generator_response.parsed, else model_validate_json(generator_response.text)
\* (main.py:684-688, 805-808); None stands for the exception either raises
ParseGeneratorResponse(reply) ==
    IF reply.kind \in {"parsed", "text"} THEN reply.entry ELSE None

GeneratorError(reply) ==
    IF reply.kind = "raises" THEN "generate_content raised" ELSE "ValidationError"

Init ==
    /\ pc = "received"
    /\ request \in Requests
    /\ query = <<>> /\ education = <<>> /\ field = <<>> /\ mode = <<>>
    /\ native_lang = "" /\ target_lang = ""
    /\ llm = "" /\ analysis = None /\ generator_schema = ""
    /\ entry = None /\ verifier_answer_text = None /\ verifier_result = None
    /\ verifier_source_lang = "" /\ verifier_target_lang = ""
    /\ entry_regen = None /\ generator_response = None /\ regen_response = None
    /\ verifier_response = None
    /\ response = None
    /\ gen_calls = 0 /\ ver_calls = 0
    /\ generator_prompt = None /\ regen_prompt = None /\ parked = None

\* what api_search reads from the body and derives from it before the
\* first generation call (main.py:610-665)
RequestValues(data) ==
    LET query_ == QueryText(data)
        mode_ == Strip(OrDefault(data.mode, Str_dict))
        native_ == OrDefaultLang(data.langs[1], "ko")
        target_ == OrDefaultLang(data.langs[2], "en")
        analysis_ == AnalyzeQuery(query_, native_, target_)
    IN  [query |-> query_,
         education |-> Strip(data.education),
         field |-> OrDefault(Strip(data.field), Str_general),
         mode |-> mode_,
         native_lang |-> native_,
         target_lang |-> target_,
         llm |-> SelectLlm(Strip(data.education)),
         analysis |-> analysis_,
         generator_schema |->
             IF analysis_.ok THEN SelectSchema(mode_, analysis_, native_) ELSE "",
         generator_prompt |->
             IF analysis_.ok
             THEN GeneratePromptRule(analysis_, Strip(data.education),
                                     OrDefault(Strip(data.field), Str_general),
                                     mode_, native_, target_)
             ELSE None]

\* these values are functions of the body alone; the table is built once
\* (@@ makes it an explicit one) and looked up by the handler
ValuesOfRequest == [data \in Requests |-> RequestValues(data)] @@ <<>>

\* api_search up to the first generation call (main.py:608-682)
ApiSearch ==
    /\ pc = "received"
    /\ \E v \in {ValuesOfRequest[request]} :
           /\ query' = v.query
           /\ education' = v.education
           /\ field' = v.field
           /\ mode' = v.mode
           /\ native_lang' = v.native_lang
           /\ target_lang' = v.target_lang
           /\ IF v.query = <<>>
              THEN /\ response' = EmptyQueryReply
                   /\ pc' = "done"
                   /\ UNCHANGED <<llm, analysis, generator_schema, generator_prompt,
                                  gen_calls>>
              ELSE IF ~v.analysis.ok
              THEN /\ llm' = v.llm
                   /\ response' = ServerErrorReply(v.analysis.error)
                   /\ pc' = "done"
                   /\ UNCHANGED <<analysis, generator_schema, generator_prompt, gen_calls>>
              ELSE /\ llm' = v.llm
                   /\ analysis' = v.analysis
                   /\ generator_schema' = v.generator_schema
                   /\ generator_prompt' = v.generator_prompt
                   /\ gen_calls' = gen_calls + 1
                   /\ pc' = "generate"
                   /\ UNCHANGED response
    /\ UNCHANGED <<parked, regen_prompt, request, entry, verifier_answer_text,
                   verifier_source_lang, verifier_target_lang, verifier_result,
                   entry_regen, generator_response, regen_response,
                   verifier_response, ver_calls>>

\* the first generation call returns; api_search up to the verifier call
\* (main.py:678-770, verifier_client.py:60-89)
FirstGenerationReturns ==
    /\ pc = "generate"
    /\ \E reply \in GeneratorReplies(generator_schema) :
        LET entry_ == ParseGeneratorResponse(reply)
        IN  /\ generator_response' = reply
            /\ IF entry_ = None
               THEN /\ response' = ServerErrorReply(GeneratorError(reply))
                    /\ pc' = "done"
                    /\ UNCHANGED <<entry, verifier_answer_text, verifier_source_lang,
                                   verifier_target_lang, ver_calls>>
               ELSE IF SkipsVerifier(ExtractQueryAnalysisStatus(entry_))
               THEN /\ entry' = entry_
                    /\ response' = Reply(200, entry_)
                    /\ pc' = "done"
                    /\ UNCHANGED <<verifier_answer_text, verifier_source_lang,
                                   verifier_target_lang, ver_calls>>
               ELSE /\ entry' = entry_
                    /\ verifier_source_lang' =
                           VerifierLangs(mode, analysis, native_lang, target_lang).source_lang
                    /\ verifier_target_lang' =
                           VerifierLangs(mode, analysis, native_lang, target_lang).target_lang
                    /\ verifier_answer_text' =
                           BuildVerifierAnswerText(entry_, mode, analysis.query_type)
                    /\ ver_calls' = ver_calls + 1
                    /\ pc' = "verify"
                    /\ UNCHANGED response
    /\ UNCHANGED <<parked, generator_prompt, regen_prompt, request, query,
                   education, field, mode, native_lang, target_lang, llm, analysis,
                   generator_schema, verifier_result, entry_regen, regen_response,
                   verifier_response, gen_calls>>

\* fault: the second generation call made whatever the verdict is
VerifierReturnsAlwaysRegenerates ==
    /\ pc = "verify"
    /\ \E reply \in VerifierReplies :
        /\ verifier_response' = reply
        /\ verifier_result' = RunVerifier(reply)
        /\ regen_prompt' =
              generator_prompt
                  \o BuildRegenerationInstruction(RunVerifier(reply).comment, field, mode)
        /\ gen_calls' = gen_calls + 1
        /\ pc' = "regenerate"
        /\ UNCHANGED response
    /\ UNCHANGED <<parked, generator_prompt, request, query,
                   education, field, mode, native_lang, target_lang, llm, analysis,
                   generator_schema, entry, verifier_answer_text,
                   verifier_source_lang, verifier_target_lang, entry_regen,
                   generator_response, regen_response, ver_calls>>

\* the verifier call returns; run_verifier ends and api_search decides
\* (verifier_client.py:83-139, main.py:761-800)
VerifierReturns ==
    /\ pc = "verify"
    /\ \E reply \in VerifierReplies :
        LET result == RunVerifier(reply)
        IN  /\ verifier_response' = reply
            /\ verifier_result' = result
            /\ IF ~NeedsRegeneration(result, VERIFIER_HALLUCINATION_THRESHOLD)
               THEN /\ response' = Reply(200, entry)
                    /\ pc' = "done"
                    /\ UNCHANGED <<gen_calls, regen_prompt>>
               ELSE /\ regen_prompt' =
                          generator_prompt
                              \o BuildRegenerationInstruction(result.comment, field, mode)
                    /\ gen_calls' = gen_calls + 1
                    /\ pc' = "regenerate"
                    /\ UNCHANGED response
    /\ UNCHANGED <<parked, generator_prompt, request, query,
                   education, field, mode, native_lang, target_lang, llm, analysis,
                   generator_schema, entry, verifier_answer_text,
                   verifier_source_lang, verifier_target_lang, entry_regen,
                   generator_response, regen_response, ver_calls>>

\* fault: the regenerated answer sent back to the verifier
RegenerationReturnsToVerifier ==
    /\ pc = "regenerate"
    /\ \E reply \in GeneratorReplies(generator_schema) :
        LET entry_ == ParseGeneratorResponse(reply)
        IN  /\ regen_response' = reply
            /\ IF entry_ = None
               THEN /\ response' = ServerErrorReply(GeneratorError(reply))
                    /\ pc' = "done"
                    /\ UNCHANGED <<entry_regen, ver_calls>>
               ELSE /\ entry_regen' = entry_
                    /\ ver_calls' = ver_calls + 1
                    /\ pc' = "verify"
                    /\ UNCHANGED response
    /\ UNCHANGED <<parked, generator_prompt, regen_prompt, request, query,
                   education, field, mode, native_lang, target_lang, llm, analysis,
                   generator_schema, entry, verifier_answer_text,
                   verifier_source_lang, verifier_target_lang, verifier_result,
                   generator_response, verifier_response, gen_calls>>

\* fault: a regenerated answer whose status is not VALID is dropped and the
\* first answer returned in its place
RegenerationReturnsFirstUnlessValid ==
    /\ pc = "regenerate"
    /\ \E reply \in GeneratorReplies(generator_schema) :
        LET entry_ == ParseGeneratorResponse(reply)
        IN  /\ regen_response' = reply
            /\ IF entry_ = None
               THEN /\ response' = ServerErrorReply(GeneratorError(reply))
                    /\ UNCHANGED entry_regen
               ELSE /\ entry_regen' = entry_
                    /\ response' = IF ExtractQueryAnalysisStatus(entry_) = "VALID"
                                   THEN Reply(200, entry_) ELSE Reply(200, entry)
    /\ pc' = "done"
    /\ UNCHANGED <<parked, generator_prompt, regen_prompt, request, query,
                   education, field, mode, native_lang, target_lang, llm, analysis,
                   generator_schema, entry, verifier_answer_text,
                   verifier_source_lang, verifier_target_lang, verifier_result,
                   generator_response, verifier_response, gen_calls, ver_calls>>

\* the second generation call returns (main.py:799-812)
RegenerationReturns ==
    /\ pc = "regenerate"
    /\ \E reply \in GeneratorReplies(generator_schema) :
        LET entry_ == ParseGeneratorResponse(reply)
        IN  /\ regen_response' = reply
            /\ IF entry_ = None
               THEN /\ response' = ServerErrorReply(GeneratorError(reply))
                    /\ UNCHANGED entry_regen
               ELSE /\ entry_regen' = entry_
                    /\ response' = Reply(200, entry_)
    /\ pc' = "done"
    /\ UNCHANGED <<parked, generator_prompt, regen_prompt, request, query,
                   education, field, mode, native_lang, target_lang, llm, analysis,
                   generator_schema, entry, verifier_answer_text,
                   verifier_source_lang, verifier_target_lang, verifier_result,
                   generator_response, verifier_response, gen_calls, ver_calls>>

Next == ApiSearch \/ FirstGenerationReturns \/ VerifierReturns \/ RegenerationReturns

Spec == Init /\ [][Next]_vars

\* the handler is straight-line code between the calls to the two services,
\* and each call returns or raises: a handler that has not returned moves on
FairSpec == Spec /\ WF_vars(Next)

\* C1: needs_regeneration(0.4) holds exactly when the verdict reports a
\* hallucination with a score above 0.4, and the second generation call is
\* made exactly when it holds.
C1_RegenerationDecision ==
    IF verifier_result = None
    THEN gen_calls <= 1
    ELSE LET over == verifier_result.has_hallucination
                        /\ verifier_result.hallucination_score > 40
         IN  /\ NeedsRegeneration(verifier_result, VERIFIER_HALLUCINATION_THRESHOLD) <=> over
             /\ (gen_calls = 2) <=> over

\* a hallucination scored exactly 0.4: the first answer is returned
C1_Witness ==
    /\ verifier_result # None
    /\ verifier_result.has_hallucination
    /\ verifier_result.hallucination_score = 40
    /\ pc = "done"
    /\ gen_calls = 1
    /\ response = Reply(200, entry)

\* C2: a request makes at most two generation calls and at most one
\* verifier call; the verifier is called only before any regeneration, and
\* once the regeneration has returned the request is over.
C2_CallBounds ==
    [][ /\ gen_calls' <= 2
        /\ ver_calls' <= 1
        /\ ver_calls' > ver_calls => (gen_calls = 1 /\ entry_regen' = None)
        /\ pc = "regenerate" => (pc' = "done" /\ gen_calls' = gen_calls /\ ver_calls' = ver_calls)
      ]_vars

\* a request that was regenerated and answered with the regenerated answer
C2_Witness ==
    /\ pc = "done"
    /\ gen_calls = 2
    /\ ver_calls = 1
    /\ entry_regen # None
    /\ response = Reply(200, entry_regen)

\* C3: when the status of the first answer is not VALID the request ends
\* with the first answer, without any verifier call or regeneration.
C3_NonValidBypass ==
    (entry # None /\ ExtractQueryAnalysisStatus(entry) # "VALID") =>
        /\ pc = "done"
        /\ response = Reply(200, entry)
        /\ ver_calls = 0
        /\ gen_calls = 1
        /\ verifier_response = None
        /\ entry_regen = None

\* a first answer with status TYPO, returned
C3_Witness ==
    /\ entry # None
    /\ ExtractQueryAnalysisStatus(entry) = "TYPO"
    /\ pc = "done"
    /\ response = Reply(200, entry)

VerifierFailed ==
    verifier_response # None /\ verifier_response.kind \in {"raises", "bad_text", "empty"}

\* C4: when the verifier call raises, or answers nothing or something that
\* does not parse, the verdict is the neutral one, the first answer is
\* returned with status 200 and no regeneration is made.
C4_VerifierFailOpen ==
    VerifierFailed =>
        /\ verifier_result.has_hallucination = FALSE
        /\ verifier_result.hallucination_score = 0
        /\ verifier_result.type = "none"
        /\ pc = "done"
        /\ response = Reply(200, entry)
        /\ gen_calls = 1
        /\ entry_regen = None

\* the verifier answered text that does not validate
C4_Witness ==
    /\ verifier_response # None
    /\ verifier_response.kind = "bad_text"
    /\ pc = "done"
    /\ response.status = 200

QueryIsBlank == \A i \in 1..Len(request.query) : IsSpace(request.query[i])

\* C10: a query that is empty or only whitespace is answered 400, which no
\* failure of the server is (those are answered 500), and for it no
\* analysis is made and neither service is called.
C10_EmptyQueryRejected ==
    /\ QueryIsBlank =>
          /\ analysis = None
          /\ gen_calls = 0
          /\ ver_calls = 0
          /\ pc = "done" => response = Reply(400, [error |-> "Query is empty."])
    /\ (pc = "done" /\ ~QueryIsBlank /\ "error" \in DOMAIN response.body)
          => response.status = 500

\* a whitespace-only query, rejected
C10_Witness ==
    /\ request.query # <<>>
    /\ QueryIsBlank
    /\ pc = "done"
    /\ response.status = 400

\* C11: the schema chosen for a request whose mode is "encyclopedia" is the
\* encyclopedia one whatever the query type; for any other mode a word, word
\* list, phrase or phrase list gets the word schema, a sentence the sentence
\* schema and a paragraph the paragraph schema, L1-to-L2 when the query
\* language is the native language and L2-to-L1 otherwise.
C11_SchemaSelection ==
    analysis # None =>
        LET toL2 == analysis.query_lang = native_lang
            qt == analysis.query_type
        IN  /\ mode = Str_encyclopedia => generator_schema = "EncyclopediaResponse"
            /\ (mode # Str_encyclopedia /\ qt \in {"word", "word_list", "phrase", "phrase_list"})
                  => generator_schema = "WordDictResponse"
            /\ (mode # Str_encyclopedia /\ qt = "sentence" /\ toL2)
                  => generator_schema = "SentenceL1toL2Response"
            /\ (mode # Str_encyclopedia /\ qt = "sentence" /\ ~toL2)
                  => generator_schema = "SentenceL2toL1Response"
            /\ (mode # Str_encyclopedia /\ qt = "paragraph" /\ toL2)
                  => generator_schema = "ParagraphL1toL2Response"
            /\ (mode # Str_encyclopedia /\ qt = "paragraph" /\ ~toL2)
                  => generator_schema = "ParagraphL2toL1Response"

\* a dict-mode sentence in the target language, given the L2-to-L1 schema
C11_Witness ==
    /\ analysis # None
    /\ mode = Str_dict
    /\ analysis.query_type = "sentence"
    /\ analysis.query_lang = target_lang
    /\ analysis.query_lang # native_lang
    /\ generator_schema = "SentenceL2toL1Response"

\* C12: once the second generation call has been made, the request ends
\* with what that call gave and nothing else: the regenerated answer with
\* status 200 whatever its own status is and without another verifier call,
\* or a 500 error when the reply neither is nor parses as an answer; the
\* first answer is returned only if the regenerated one equals it.
C12_RegeneratedOnly ==
    gen_calls = 2 =>
        /\ ver_calls = 1
        /\ NeedsRegeneration(verifier_result, VERIFIER_HALLUCINATION_THRESHOLD)
        /\ pc \in {"regenerate", "done"}
        /\ pc = "regenerate" => (response = None /\ regen_response = None)
        /\ pc = "done" =>
              /\ regen_response # None
              /\ IF regen_response.kind \in {"parsed", "text"}
                 THEN response = [status |-> 200, body |-> regen_response.entry]
                 ELSE /\ response.status = 500
                      /\ DOMAIN response.body = {"error"}
              /\ response.body = entry => regen_response.kind \in {"parsed", "text"}

\* a regenerated answer that differs from the first and whose own status is
\* NONSENSE, returned with status 200
C12_Witness ==
    /\ gen_calls = 2
    /\ pc = "done"
    /\ entry_regen # None
    /\ entry_regen # entry
    /\ ExtractQueryAnalysisStatus(entry_regen) = "NONSENSE"
    /\ response = [status |-> 200, body |-> entry_regen]

\* C15: when the first generation call gives no parsed structure, its text
\* is validated against the schema that was selected: if it validates, the
\* request goes on with that answer as with a parsed one; if it does not,
\* the request ends with status 500 after that single generation call and
\* without any verifier call.
C15_ParseOrReparseOrFail ==
    generator_response # None =>
        /\ generator_response.kind = "text" =>
              /\ entry = generator_response.entry
              /\ \E st \in QueryAnalysisStatus, a \in SampleLens :
                    entry = SampleEntry(generator_schema, st, a)
              /\ pc = "done" => response.status = 200 \/ gen_calls = 2
              /\ (pc = "done" /\ gen_calls = 1) => response = Reply(200, entry)
              /\ ExtractQueryAnalysisStatus(entry) = "VALID" => ver_calls = 1
        /\ generator_response.kind \in {"bad_text", "raises"} =>
              /\ pc = "done"
              /\ response.status = 500
              /\ DOMAIN response.body = {"error"}
              /\ entry = None
              /\ gen_calls = 1 /\ regen_response = None
              /\ ver_calls = 0 /\ verifier_response = None /\ verifier_result = None

\* a first reply without parsed structure whose text does not validate
C15_Witness ==
    /\ generator_response # None
    /\ generator_response.kind = "bad_text"
    /\ pc = "done"
    /\ response = ServerErrorReply("ValidationError")
    /\ gen_calls = 1 /\ ver_calls = 0

\* C17: when the verifier is called, in mode "dict" it is given the pair
\* (native, target) if the query language is the native language and the
\* pair (query language, native) otherwise; in mode "encyclopedia" it is
\* given the query language and no target language; whatever the query type.
C17_VerifierLanguagePair ==
    ver_calls = 1 =>
        /\ mode = Str_dict =>
              IF analysis.query_lang = native_lang
              THEN /\ verifier_source_lang = native_lang
                   /\ verifier_target_lang = target_lang
              ELSE /\ verifier_source_lang = analysis.query_lang
                   /\ verifier_target_lang = native_lang
        /\ mode = Str_encyclopedia =>
              /\ verifier_source_lang = analysis.query_lang
              /\ verifier_target_lang = "None"
        /\ analysis.query_type \in
              {"word", "word_list", "phrase", "phrase_list", "sentence", "paragraph"}

\* a dict-mode paragraph in the target language: the verifier is given
\* (target, native)
C17_Witness ==
    /\ ver_calls = 1
    /\ mode = Str_dict
    /\ analysis.query_type = "paragraph"
    /\ native_lang = "ko" /\ target_lang = "en"
    /\ analysis.query_lang = "en"
    /\ verifier_source_lang = "en"
    /\ verifier_target_lang = "ko"

BlockIndex(prompt, name) == CHOOSE i \in 1..Len(prompt) : prompt[i].block = name

\* C18: the instruction text holds, in this order, the preamble, the
\* query-validation contract, the level-adaptation block, the domain block
\* and the task body.
C18_BlockOrder ==
    generator_prompt # None =>
        /\ BlockIndex(generator_prompt, "preamble") < BlockIndex(generator_prompt, "validation")
        /\ BlockIndex(generator_prompt, "validation") < BlockIndex(generator_prompt, "level")
        /\ BlockIndex(generator_prompt, "level") < BlockIndex(generator_prompt, "domain")
        /\ BlockIndex(generator_prompt, "domain") < BlockIndex(generator_prompt, "task")

ReturnsFirstAnswer ==
    /\ response.status = 200 /\ entry # None /\ response.body = entry
    /\ gen_calls = 1 /\ regen_response = None

ReturnsRegeneratedAnswer ==
    /\ response.status = 200 /\ entry_regen # None /\ response.body = entry_regen
    /\ gen_calls = 2

Fails ==
    /\ response.status \in {400, 500}
    /\ DOMAIN response.body = {"error"}

\* C16: the verifier is called only once the first generation call has given
\* an answer whose status is VALID; the second generation call is made only
\* once the verifier call has ended and its verdict asks for regeneration;
\* and every request comes to an end, in exactly one of three ways: the
\* first answer is returned, the regenerated answer is returned, or an error.
CallsInOrder ==
    /\ gen_calls \in 0..2 /\ ver_calls \in 0..1
    /\ gen_calls = 0 => ver_calls = 0
    /\ pc = "generate" => (gen_calls = 1 /\ ver_calls = 0 /\ generator_response = None)
    /\ ver_calls = 1 =>
          /\ generator_response # None /\ entry # None
          /\ ExtractQueryAnalysisStatus(entry) = "VALID"
    /\ pc = "verify" => (ver_calls = 1 /\ gen_calls = 1 /\ verifier_response = None)
    /\ gen_calls = 2 =>
          /\ ver_calls = 1
          /\ verifier_response # None /\ verifier_result # None
          /\ verifier_result.has_hallucination
          /\ verifier_result.hallucination_score > 40
    /\ pc = "regenerate" => (gen_calls = 2 /\ regen_response = None)

OneOutcome ==
    \/ ReturnsFirstAnswer /\ ~ReturnsRegeneratedAnswer /\ ~Fails
    \/ ~ReturnsFirstAnswer /\ ReturnsRegeneratedAnswer /\ ~Fails
    \/ ~ReturnsFirstAnswer /\ ~ReturnsRegeneratedAnswer /\ Fails

Ended == pc = "done" /\ OneOutcome

OrderedUntilEnded == CallsInOrder /\ (pc = "done" => OneOutcome)

C16_OrderedCallsOneOutcome == []OrderedUntilEnded /\ <>[]Ended

\* a request that went through both services and failed at the second
\* generation call
C16_Witness ==
    /\ pc = "done"
    /\ gen_calls = 2 /\ ver_calls = 1
    /\ regen_response # None /\ regen_response.kind = "raises"
    /\ Fails

\* the lines appended to the instruction text for the second generation call
CorrectionBlock ==
    SubSeq(regen_prompt, Len(generator_prompt) + 1, Len(regen_prompt))
CorrectionLines == {CorrectionBlock[i].line : i \in 1..Len(CorrectionBlock)}

\* C21: the text of the second generation call is the text of the first one,
\* unchanged, followed by a correction block; with or without a verifier
\* comment, the block tells to fix all issues found, not to repeat the
\* mistaken content, to regenerate a new answer free of unnecessary
\* information, and to keep the original answer schema; a comment that is
\* not empty is restated in it.
C21_RegenerationDirective ==
    regen_prompt # None =>
        /\ Len(regen_prompt) > Len(generator_prompt)
        /\ SubSeq(regen_prompt, 1, Len(generator_prompt)) = generator_prompt
        /\ \A i \in 1..Len(CorrectionBlock) : CorrectionBlock[i].block = "correction"
        /\ "1) You MUST fix ALL issues identified by the internal verifier."
              \in CorrectionLines
        /\ "2) You MUST NOT repeat any mistaken senses, alternatives, or examples."
              \in CorrectionLines
        /\ "You must regenerate a NEW answer for the same user query, fully obeying the following rules:"
              \in CorrectionLines
        /\ IF verifier_result.comment = 0
           THEN /\ "4) Regenerate the answer cleanly and concisely." \in CorrectionLines
                /\ "5) Do NOT add unnecessary information." \in CorrectionLines
                /\ "6) The JSON structure of the answer MUST follow the original schema."
                      \in CorrectionLines
                /\ "   {feedback_comment}" \notin CorrectionLines
           ELSE /\ "7) Do NOT add irrelevant or unnecessary information." \in CorrectionLines
                /\ "8) The final output MUST strictly match the original required JSON schema."
                      \in CorrectionLines
                /\ \E i \in 1..Len(CorrectionBlock) :
                      /\ CorrectionBlock[i].line = "   {feedback_comment}"
                      /\ CorrectionBlock[i].feedback_comment = verifier_result.comment

\* the second generation call is under way after a verdict with a comment
C21_Witness ==
    /\ pc = "regenerate"
    /\ regen_prompt # None
    /\ verifier_result.comment = 7
    /\ "8) The final output MUST strictly match the original required JSON schema."
          \in CorrectionLines

\* C23: the status taken from an answer is the status of its top-level
\* validation block when it has one, else the status of the block inside its
\* sentence object; an answer holding no status in either place gives None;
\* and an answer whose status is anything but VALID, None included, is not
\* sent to the verifier.
C23_StatusBothPlacements ==
    /\ entry # None =>
          LET st == ExtractQueryAnalysisStatus(entry)
          IN  /\ IF "query_analysis" \in DOMAIN entry
                 THEN st = entry.query_analysis.status
                 ELSE /\ "sentence" \in DOMAIN entry
                      /\ "query_analysis" \in DOMAIN entry.sentence
                      /\ st = entry.sentence.query_analysis.status
              /\ st \in QueryAnalysisStatus
              /\ (st # "VALID" /\ pc = "done") =>
                    (ver_calls = 0 /\ response = Reply(200, entry))
    /\ ExtractQueryAnalysisStatus([l2_focus_sentence |-> 3]) = "None"
    /\ ExtractQueryAnalysisStatus([sentence |-> [l2_sentence |-> 3]]) = "None"
    /\ ExtractQueryAnalysisStatus([query_analysis |-> [reason_l1 |-> 3]]) = "None"
    /\ ExtractQueryAnalysisStatus([sentence |-> [query_analysis |-> None]]) = "None"
    /\ SkipsVerifier("None")

\* an answer of the shape that holds its validation block inside the
\* sentence object, returned without verification for its status
C23_Witness ==
    /\ pc = "done"
    /\ generator_schema = "SentenceL2toL1Response"
    /\ entry # None
    /\ "query_analysis" \notin DOMAIN entry
    /\ ExtractQueryAnalysisStatus(entry) = "AMBIGUOUS"
    /\ ver_calls = 0
    /\ response = Reply(200, entry)

\* C26: for every mode string of a request, the encyclopedia schema is
\* chosen exactly when the instruction text carries the encyclopedia task
\* body.
C26_ModeAgreement ==
    generator_prompt # None =>
        (generator_schema = "EncyclopediaResponse"
            <=> generator_prompt[BlockIndex(generator_prompt, "task")].task
                   = "Encyclopedia-style explanation")

\* C27: in dict mode the instruction text carries a native-to-target task
\* body exactly when the language pair handed to the verifier is
\* (nativeLang, targetLang), and for a sentence or a paragraph exactly when
\* the native-to-target shape is chosen; otherwise the target-to-native
\* shape is chosen and the verifier pair is (queryLang, nativeLang).
C27_DirectionAgreement ==
    (mode = Str_dict /\ generator_prompt # None) =>
        LET composer == generator_prompt[BlockIndex(generator_prompt, "task")].direction
            native_to_target == composer = "native_to_target"
        IN  /\ composer \in {"native_to_target", "target_to_native"}
            /\ analysis.query_type = "sentence" =>
                  generator_schema = IF native_to_target
                                     THEN "SentenceL1toL2Response"
                                     ELSE "SentenceL2toL1Response"
            /\ analysis.query_type = "paragraph" =>
                  generator_schema = IF native_to_target
                                     THEN "ParagraphL1toL2Response"
                                     ELSE "ParagraphL2toL1Response"
            /\ ver_calls >= 1 =>
                  /\ native_to_target <=>
                        (verifier_source_lang = native_lang
                            /\ verifier_target_lang = target_lang)
                  /\ ~native_to_target =>
                        (verifier_source_lang = target_lang
                            /\ verifier_target_lang = native_lang)

\* a sentence verified in dict mode with one language in both roles
C27_Witness ==
    /\ mode = Str_dict
    /\ native_lang = target_lang
    /\ ver_calls >= 1
    /\ analysis.query_type = "sentence"
    /\ generator_schema = "SentenceL1toL2Response"
    /\ verifier_source_lang = native_lang

\* a paragraph verified in dict mode in the target-to-native direction
C27_WitnessTargetToNative ==
    /\ mode = Str_dict
    /\ native_lang # target_lang
    /\ ver_calls >= 1
    /\ analysis.query_type = "paragraph"
    /\ generator_schema = "ParagraphL2toL1Response"
    /\ verifier_source_lang = target_lang

\* C29: for every education code the stronger generation model is chosen
\* exactly when the instruction text carries the Master or the Doctoral
\* level block, and the second generation call is made with the model and
\* the shape of the first.
C29_TierLevelAgreement ==
    generator_prompt # None =>
        /\ llm = "models/gemini-2.5-flash"
              <=> generator_prompt[BlockIndex(generator_prompt, "level")].tier
                     \in {"master", "doctor"}
        /\ gen_calls = 2 =>
              /\ llm = SelectLlm(education)
              /\ generator_schema = SelectSchema(mode, analysis, native_lang)
              /\ entry_regen # None => DOMAIN entry_regen = DOMAIN entry

\* C22: the correction block restates field-exclusivity exactly when the
\* instruction text carries the field-exclusive domain block, restates the
\* general-sense rule exactly when it carries the general-field block, and
\* restates nothing about the field exactly when it carries the encyclopedia
\* block.
C22_FieldRestatementMirrors ==
    regen_prompt # None =>
        LET rule == generator_prompt[BlockIndex(generator_prompt, "domain")].rule
            exclusive ==
                "3) The dictionary mode is FIELD-EXCLUSIVE. The field is '{field}'."
                    \in CorrectionLines
            general == "3) The dictionary mode is in GENERAL field." \in CorrectionLines
        IN  /\ exclusive <=> rule = "dictionary, field-exclusive"
            /\ general <=> rule = "dictionary, general field"
            /\ (~exclusive /\ ~general) <=> rule = "encyclopedia, field-weighted"

\* ------------------------------------------------------------------------
\* Two requests handled at once.  The development server runs each request
\* in a thread of its own (main.py:826); everything api_search and the
\* functions it calls assign is a local of that call (main.py:608-812), and
\* the module-level names (client, app, the threshold; main.py:39-54) are
\* assigned once at import.  The variables above are the frame of the
\* thread that is running; parked is the frame of the other thread.
\* ------------------------------------------------------------------------
Frame ==
    [pc |-> pc, request |-> request, query |-> query, education |-> education,
     field |-> field, mode |-> mode, native_lang |-> native_lang,
     target_lang |-> target_lang, llm |-> llm, analysis |-> analysis,
     generator_schema |-> generator_schema, entry |-> entry,
     verifier_answer_text |-> verifier_answer_text,
     verifier_source_lang |-> verifier_source_lang,
     verifier_target_lang |-> verifier_target_lang,
     verifier_result |-> verifier_result, entry_regen |-> entry_regen,
     generator_response |-> generator_response, regen_response |-> regen_response,
     verifier_response |-> verifier_response, response |-> response,
     gen_calls |-> gen_calls, ver_calls |-> ver_calls,
     generator_prompt |-> generator_prompt, regen_prompt |-> regen_prompt]

\* the frame of a request that has just arrived
IdleFrame(req) ==
    [pc |-> "received", request |-> req, query |-> <<>>, education |-> <<>>,
     field |-> <<>>, mode |-> <<>>, native_lang |-> "", target_lang |-> "",
     llm |-> "", analysis |-> None, generator_schema |-> "", entry |-> None,
     verifier_answer_text |-> None, verifier_source_lang |-> "",
     verifier_target_lang |-> "", verifier_result |-> None, entry_regen |-> None,
     generator_response |-> None, regen_response |-> None,
     verifier_response |-> None, response |-> None, gen_calls |-> 0,
     ver_calls |-> 0, generator_prompt |-> None, regen_prompt |-> None]

\* a dict-mode word and an encyclopedia-mode sentence
ConcurrentRequests ==
    { [query |-> <<SP, LATIN_a, SP>>, education |-> Str_master, field |-> Str_finance,
       mode |-> Str_dict, langs |-> <<"ko", "en">>],
      [query |-> <<LATIN_a, SP, LATIN_a, SP, LATIN_a, FULL_STOP>>, education |-> <<>>,
       field |-> <<>>, mode |-> Str_encyclopedia, langs |-> <<"", "">>] }

InitConcurrent ==
    /\ pc = "received"
    /\ request \in ConcurrentRequests
    /\ \E other \in ConcurrentRequests \ {request} : parked = IdleFrame(other)
    /\ query = <<>> /\ education = <<>> /\ field = <<>> /\ mode = <<>>
    /\ native_lang = "" /\ target_lang = ""
    /\ llm = "" /\ analysis = None /\ generator_schema = ""
    /\ entry = None /\ verifier_answer_text = None /\ verifier_result = None
    /\ verifier_source_lang = "" /\ verifier_target_lang = ""
    /\ entry_regen = None /\ generator_response = None /\ regen_response = None
    /\ verifier_response = None
    /\ response = None
    /\ gen_calls = 0 /\ ver_calls = 0
    /\ generator_prompt = None /\ regen_prompt = None

\* fault: entry kept in a name of the module, which both threads assign
SwitchSharingEntry ==
    /\ parked # None
    /\ parked' = Frame
    /\ pc' = parked.pc
    /\ request' = parked.request
    /\ query' = parked.query
    /\ education' = parked.education
    /\ field' = parked.field
    /\ mode' = parked.mode
    /\ native_lang' = parked.native_lang
    /\ target_lang' = parked.target_lang
    /\ llm' = parked.llm
    /\ analysis' = parked.analysis
    /\ generator_schema' = parked.generator_schema
    /\ UNCHANGED entry
    /\ verifier_answer_text' = parked.verifier_answer_text
    /\ verifier_source_lang' = parked.verifier_source_lang
    /\ verifier_target_lang' = parked.verifier_target_lang
    /\ verifier_result' = parked.verifier_result
    /\ entry_regen' = parked.entry_regen
    /\ generator_response' = parked.generator_response
    /\ regen_response' = parked.regen_response
    /\ verifier_response' = parked.verifier_response
    /\ response' = parked.response
    /\ gen_calls' = parked.gen_calls
    /\ ver_calls' = parked.ver_calls
    /\ generator_prompt' = parked.generator_prompt
    /\ regen_prompt' = parked.regen_prompt

\* the runtime leaves the running thread and resumes the other one
Switch ==
    /\ parked # None
    /\ parked' = Frame
    /\ pc' = parked.pc
    /\ request' = parked.request
    /\ query' = parked.query
    /\ education' = parked.education
    /\ field' = parked.field
    /\ mode' = parked.mode
    /\ native_lang' = parked.native_lang
    /\ target_lang' = parked.target_lang
    /\ llm' = parked.llm
    /\ analysis' = parked.analysis
    /\ generator_schema' = parked.generator_schema
    /\ entry' = parked.entry
    /\ verifier_answer_text' = parked.verifier_answer_text
    /\ verifier_source_lang' = parked.verifier_source_lang
    /\ verifier_target_lang' = parked.verifier_target_lang
    /\ verifier_result' = parked.verifier_result
    /\ entry_regen' = parked.entry_regen
    /\ generator_response' = parked.generator_response
    /\ regen_response' = parked.regen_response
    /\ verifier_response' = parked.verifier_response
    /\ response' = parked.response
    /\ gen_calls' = parked.gen_calls
    /\ ver_calls' = parked.ver_calls
    /\ generator_prompt' = parked.generator_prompt
    /\ regen_prompt' = parked.regen_prompt

NextConcurrent ==
    ApiSearch \/ FirstGenerationReturns \/ VerifierReturns \/ RegenerationReturns \/ Switch

SpecConcurrent == InitConcurrent /\ [][NextConcurrent]_vars

\* what a request is answered when it is handled alone and the services
\* reply g1 to the first generation call, v to the verifier call and g2 to
\* the second generation call (the calls that are made)
AloneResponse(req, g1, v, g2) ==
    LET query_ == QueryText(req)
        entry_ == ParseGeneratorResponse(g1)
        regen_ == ParseGeneratorResponse(g2)
    IN  IF query_ = <<>> THEN EmptyQueryReply
        ELSE IF Normalize(query_) = <<>> THEN ServerErrorReply(ValueError.error)
        ELSE IF entry_ = None THEN ServerErrorReply(GeneratorError(g1))
        ELSE IF ExtractQueryAnalysisStatus(entry_) # "VALID" THEN Reply(200, entry_)
        ELSE IF ~NeedsRegeneration(RunVerifier(v), VERIFIER_HALLUCINATION_THRESHOLD)
             THEN Reply(200, entry_)
        ELSE IF regen_ = None THEN ServerErrorReply(GeneratorError(g2))
        ELSE Reply(200, regen_)

AnsweredAsAlone(frame) ==
    frame.pc = "done" =>
        frame.response = AloneResponse(frame.request, frame.generator_response,
                                       frame.verifier_response, frame.regen_response)

\* C14: however the steps of two requests handled at once are interleaved,
\* each of them is answered what it would be answered alone with the same
\* replies of the two services, and what a request has computed so far is
\* not changed while the other one runs.
C14_NoInterference ==
    parked # None =>
        /\ AnsweredAsAlone(Frame)
        /\ AnsweredAsAlone(parked)
        /\ \A f \in {Frame, parked} :
              /\ f.entry # None =>
                    /\ f.generator_response # None
                    /\ f.entry = ParseGeneratorResponse(f.generator_response)
              /\ f.analysis # None =>
                    /\ f.analysis.raw_query = f.query
                    /\ f.query = QueryText(f.request)
              /\ f.verifier_result # None =>
                    /\ f.verifier_response # None
                    /\ f.verifier_result = RunVerifier(f.verifier_response)
              /\ f.entry_regen # None =>
                    /\ f.regen_response # None
                    /\ f.entry_regen = ParseGeneratorResponse(f.regen_response)

\* both requests answered, differently, after the one was parked between
\* its verifier call and its regeneration while the other was verified
C14_Witness ==
    /\ parked # None
    /\ pc = "done" /\ parked.pc = "done"
    /\ request # parked.request
    /\ gen_calls = 2 /\ parked.gen_calls = 2
    /\ response.status = 200 /\ parked.response.status = 200
    /\ response # parked.response

\* ------------------------------------------------------------------------
\* analyze_query on its own: the texts and language pairs it is applied to
\* ------------------------------------------------------------------------
MaxCore == 3
CoreAlphabet == {LATIN_a, SP, FULL_STOP, COMMA, HANGUL_GA, CJK_ZHONG, A_UMLAUT}
RECURSIVE TextsUpTo(_, _)
TextsUpTo(alphabet, n) ==
    IF n = 0 THEN {<<>>}
    ELSE LET shorter == TextsUpTo(alphabet, n - 1)
         IN  shorter \cup {Append(t, c) : t \in {u \in shorter : Len(u) = n - 1}, c \in alphabet}
ShortTexts == TextsUpTo(CoreAlphabet, MaxCore)

\* texts around the paragraph length: a run of one letter and a short tail
MaxPad == 79
MaxTail == 2
TailAlphabet == {LATIN_a, FULL_STOP, ZH_FULL_STOP, SP}
PaddedTexts ==
    {Repeat(c, n) \o tail :
        c \in {LATIN_a, CJK_ZHONG}, n \in (MaxPad - 2)..MaxPad,
        tail \in TextsUpTo(TailAlphabet, MaxTail)}

\* texts around the 300-character sample: Hangul first, then Latin letters
HalfSample == 150
MaxSkew == 1
LongTexts ==
    {Repeat(HANGUL_GA, h) \o Repeat(LATIN_a, l) :
        h \in (HalfSample - MaxSkew)..(HalfSample + MaxSkew),
        l \in (HalfSample - MaxSkew)..(HalfSample + MaxSkew + 1)}

\* lists of n items, k of them word-like, for three kinds of item
MaxItems == 10
RECURSIVE JoinWith(_, _)
JoinWith(items, sep) ==
    IF items = <<>> THEN <<>>
    ELSE IF Len(items) = 1 THEN Head(items)
    ELSE Head(items) \o <<sep>> \o JoinWith(Tail(items), sep)
ItemKinds ==
    { <<(<<LATIN_a>>), (<<LATIN_a, SP, LATIN_a>>)>>,
      <<Repeat(CJK_ZHONG, ZH_WORD_MAX_CHARS), Repeat(CJK_ZHONG, ZH_WORD_MAX_CHARS + 1)>> }
ListOf(kind, n, k) == JoinWith([i \in 1..n |-> IF i <= k THEN kind[1] ELSE kind[2]], COMMA)
ListTexts == {ListOf(kind, n, k) : kind \in ItemKinds, n \in 2..MaxItems, k \in 0..MaxItems}

\* short lists of items at the longest length a word may have
MaxLongItems == 3
LongItemKind == <<Repeat(LATIN_a, WORD_MAX_CHARS), Repeat(LATIN_a, WORD_MAX_CHARS + 1)>>
LongItemLists == {ListOf(LongItemKind, n, k) : n \in 2..MaxLongItems, k \in 0..MaxLongItems}

\* Korean clauses around the shortest length a sentence without terminator
\* may have: "na-neun hakgyo-e gatda" (I went to school), the same with
\* "eoje" (yesterday), with a polite or a non-final ending, and followed by
\* nothing, a full stop, a closing quote or a blank
SchoolSentence == <<45208, 45716, SP, 54617, 44368, 50640, SP, 44052, 45796>>
KoreanTexts ==
    {<<45208, 45716, SP>> \o adverb \o <<54617, 44368, 50640, SP>> \o verb \o trail :
        adverb \in {<<>>, <<50612, 51228, SP>>},
        verb \in {<<44052, 45796>>, <<44052, 49845, 45768, 45796>>, <<44052, 50612>>},
        trail \in {<<>>, <<FULL_STOP>>, <<DOUBLE_QUOTE>>, <<SP>>}}

\* two items, each a word, a phrase or a sentence, around one separator
SentenceItemLists ==
    {x \o <<sep>> \o y :
        x, y \in {<<LATIN_a>>, <<LATIN_a, SP, LATIN_a>>,
                  <<LATIN_a, SP, LATIN_a, SP, LATIN_a, FULL_STOP>>},
        sep \in {COMMA, SEMICOLON, NL}}

AnalyzeTexts ==
    ShortTexts \cup PaddedTexts \cup LongTexts \cup ListTexts \cup LongItemLists
        \cup KoreanTexts \cup SentenceItemLists
        \cup {kind[i] : kind \in ItemKinds, i \in 1..2}

InitAnalyze ==
    /\ pc = "analyze"
    /\ query \in AnalyzeTexts
    /\ native_lang \in LangCode
    /\ target_lang \in LangCode
    /\ request = None /\ education = <<>> /\ field = <<>> /\ mode = <<>>
    /\ llm = "" /\ analysis = None /\ generator_schema = ""
    /\ entry = None /\ verifier_answer_text = None /\ verifier_result = None
    /\ verifier_source_lang = "" /\ verifier_target_lang = ""
    /\ entry_regen = None /\ generator_response = None /\ regen_response = None
    /\ verifier_response = None
    /\ response = None
    /\ gen_calls = 0 /\ ver_calls = 0
    /\ generator_prompt = None /\ regen_prompt = None /\ parked = None

\* analyze_query(query, native_lang, target_lang)
AnalyzeQueryCall ==
    /\ pc = "analyze"
    /\ analysis' = AnalyzeQuery(query, native_lang, target_lang)
    /\ pc' = "analyzed"
    /\ UNCHANGED <<parked, generator_prompt, regen_prompt, request, query,
                   education, field, mode, native_lang, target_lang, llm,
                   generator_schema, entry, verifier_answer_text,
                   verifier_source_lang, verifier_target_lang, verifier_result,
                   entry_regen, generator_response, regen_response,
                   verifier_response, response, gen_calls, ver_calls>>

NextAnalyze == AnalyzeQueryCall

SpecAnalyze == InitAnalyze /\ [][NextAnalyze]_vars

Analyzed == pc = "analyzed" /\ analysis.ok

\* C7: when the native-language score of the normalized text equals its
\* target-language score (both zero included) the query language is the
\* native language; otherwise it is the language with the higher score.
C7_LanguageTieBreak ==
    Analyzed =>
        LET native_score == LangScore(analysis.normalized_query, native_lang)
            target_score == LangScore(analysis.normalized_query, target_lang)
        IN  /\ native_score = target_score => analysis.query_lang = native_lang
            /\ native_score > target_score => analysis.query_lang = native_lang
            /\ target_score > native_score => analysis.query_lang = target_lang

\* a tie at a positive score between two different languages, resolved
C7_Witness ==
    /\ Analyzed
    /\ native_lang # target_lang
    /\ LangScore(analysis.normalized_query, native_lang) > 0
    /\ LangScore(analysis.normalized_query, native_lang)
         = LangScore(analysis.normalized_query, target_lang)
    /\ analysis.query_lang = native_lang

\* C28: the query language of a successful analysis is never absent and
\* is the native or the target language of the call, whatever characters
\* the text holds.
C28_QueryLangNativeOrTarget ==
    Analyzed =>
        /\ analysis.query_lang # "None"
        /\ analysis.query_lang \in {native_lang, target_lang}

\* a text holding no character of either language, analysed
C28_Witness ==
    /\ Analyzed
    /\ native_lang # target_lang
    /\ LangScore(analysis.normalized_query, native_lang) = 0
    /\ LangScore(analysis.normalized_query, target_lang) = 0
    /\ analysis.query_lang = native_lang

\* C30: with native language de and target language en the German score
\* of the text is never below its English score, the query language is de
\* for every text, and the direction derived from it is never
\* target-to-native.
C30_GermanOverEnglish ==
    (Analyzed /\ native_lang = "de" /\ target_lang = "en") =>
        /\ LangScore(analysis.normalized_query, "de")
              >= LangScore(analysis.normalized_query, "en")
        /\ analysis.query_lang = "de"
        /\ Direction(analysis.query_lang, native_lang, target_lang) = "native_to_target"

\* a text of unaccented Latin letters only, a tie at a positive score
C30_Witness ==
    /\ Analyzed /\ native_lang = "de" /\ target_lang = "en"
    /\ LangScore(analysis.normalized_query, "en") > 0
    /\ LangScore(analysis.normalized_query, "de")
         = LangScore(analysis.normalized_query, "en")
    /\ analysis.query_lang = "de"

\* a text holding a German diacritic: the German score is the higher one
C30_WitnessDiacritic ==
    /\ Analyzed /\ native_lang = "de" /\ target_lang = "en"
    /\ LangScore(analysis.normalized_query, "de")
         > LangScore(analysis.normalized_query, "en")
    /\ analysis.query_lang = "de"

\* the segments a text falls into at the terminators: the maximal runs free
\* of terminators that hold a character other than whitespace
SegmentStarts(text, terms) ==
    {i \in 1..Len(text) :
        /\ text[i] \notin terms /\ ~IsSpace(text[i])
        /\ \A j \in (MaxOf({0} \cup {m \in 1..(i - 1) : text[m] \in terms}) + 1)..(i - 1) :
              IsSpace(text[j])}
TerminatorsOf(lang) == IF lang = "zh" THEN SENT_TERM_ZH ELSE SENT_TERM_LATIN

\* C8: a text is classified paragraph exactly when its normalized form has
\* at least 2 non-empty segments between the language's sentence terminators
\* and is at least 80 characters long.
C8_ParagraphIff ==
    Analyzed =>
        (analysis.query_type = "paragraph"
           <=> /\ Cardinality(SegmentStarts(analysis.normalized_query,
                                            TerminatorsOf(analysis.query_lang))) >= 2
               /\ Len(analysis.normalized_query) >= 80)

\* a paragraph of exactly 80 characters
C8_Witness ==
    /\ Analyzed
    /\ analysis.query_type = "paragraph"
    /\ Len(analysis.normalized_query) = 80

\* C9: a list of n items of which k are word-like is a word_list exactly
\* when 10k >= 7n, and a phrase_list otherwise.
C9_ListSubtype ==
    (Analyzed /\ analysis.query_type \in {"word_list", "phrase_list"}) =>
        LET n == Len(analysis.units)
            k == WordLikeCount(analysis.units, analysis.query_lang)
        IN  analysis.query_type = (IF 10 * k >= 7 * n THEN "word_list" ELSE "phrase_list")

\* 7 word-like items of 10: the fraction is exactly 0.7
C9_Witness ==
    /\ Analyzed
    /\ analysis.query_type = "word_list"
    /\ Len(analysis.units) = 10
    /\ WordLikeCount(analysis.units, analysis.query_lang) = 7

\* C13, as stated: the text "na-neun hakgyo-e gatda", taken as Korean, is
\* classified as a sentence.
C13_SchoolSentenceIsSentence ==
    (Analyzed /\ query = SchoolSentence /\ analysis.query_lang = "ko") =>
        analysis.query_type = "sentence"

\* C13, amended: that text has 9 characters, one fewer than the Korean
\* suffix rule asks for, and is classified as a phrase; a Korean clause
\* without terminator is a sentence exactly when it has at least 10
\* characters and ends in "da" (a closing quote may follow), and with a
\* final full stop and three words it is a sentence at any length.
C13_KoreanSuffixRule ==
    (Analyzed /\ query \in KoreanTexts /\ analysis.query_lang = "ko") =>
        LET t == analysis.normalized_query
            n == Len(t)
            endsInDa == \/ t[n] = 45796
                        \/ t[n] = DOUBLE_QUOTE /\ t[n - 1] = 45796
        IN  /\ analysis.units = <<t>>
            /\ analysis.query_type =
                  (IF t[n] = FULL_STOP THEN "sentence"
                   ELSE IF n >= 10 /\ endsInDa THEN "sentence"
                   ELSE "phrase")
            /\ query = SchoolSentence => (n = 9 /\ analysis.query_type = "phrase")

\* the text of the claim analysed with native Korean and target English
C13_Witness ==
    /\ Analyzed
    /\ query = SchoolSentence
    /\ native_lang = "ko" /\ target_lang = "en"
    /\ analysis.query_lang = "ko"
    /\ Len(analysis.normalized_query) = 9
    /\ analysis.query_type = "phrase"

\* C20: whenever the query type is paragraph, the units are the segments
\* paragraph detection counted, one unit per non-empty segment between the
\* terminators of the normalized text, so there are at least 2 units.
C20_ParagraphUnits ==
    (Analyzed /\ analysis.query_type = "paragraph") =>
        /\ Len(analysis.units)
              = Cardinality(SegmentStarts(analysis.normalized_query,
                                          TerminatorsOf(analysis.query_lang)))
        /\ Len(analysis.units) >= 2

\* C24: a text that is not a paragraph and splits at the list separators
\* into at least 2 non-empty items, none of them sentence-like, is a
\* word_list or a phrase_list whose units are those items, trimmed and in
\* order; with fewer than 2 items, or with an item that is sentence-like, it
\* is a single unit.
C24_ListDetection ==
    (Analyzed /\ analysis.query_type # "paragraph") =>
        LET text == analysis.normalized_query
            items == SplitListCandidates(text)
            units == analysis.units
        IN  IF /\ Len(items) >= 2
               /\ \A i \in 1..Len(items) : ~LooksLikeSentence(items[i], analysis.query_lang)
            THEN /\ analysis.query_type \in {"word_list", "phrase_list"}
                 /\ units = items
                 /\ \A i \in 1..Len(units) :
                       /\ units[i] # <<>>
                       /\ ~IsSpace(units[i][1]) /\ ~IsSpace(units[i][Len(units[i])])
                       /\ \A j \in 1..Len(units[i]) :
                             units[i][j] \notin LIST_SPLIT_CHARS \cup {NL}
            ELSE /\ analysis.query_type \in {"word", "phrase", "sentence"}
                 /\ units = <<text>>

\* C25: a text that is neither a paragraph nor a list is one unit, the whole
\* normalized text; it is a sentence when it is sentence-like, else a word
\* when it has at most 1 token (query language en, de or ko) or at most 3
\* characters that are not whitespace (query language zh), else a phrase;
\* and the units of a successful analysis are never empty.
C25_SingleUnit ==
    Analyzed =>
        LET text == analysis.normalized_query
            lang == analysis.query_lang
            nTokens == Cardinality({i \in 1..Len(text) :
                          ~IsSpace(text[i]) /\ (i = 1 \/ IsSpace(text[i - 1]))})
            nChars == Cardinality({i \in 1..Len(text) : ~IsSpace(text[i])})
        IN  /\ analysis.units # <<>>
            /\ analysis.query_type \notin {"paragraph", "word_list", "phrase_list"} =>
                  /\ text # <<>>
                  /\ analysis.units = <<text>>
                  /\ analysis.query_type =
                        (IF LooksLikeSentence(text, lang) THEN "sentence"
                         ELSE IF lang = "zh"
                              THEN (IF nChars <= 3 THEN "word" ELSE "phrase")
                              ELSE (IF nTokens <= 1 THEN "word" ELSE "phrase"))

\* four ideographs without a blank, taken as Chinese: one token, a phrase
C25_Witness ==
    /\ Analyzed
    /\ query = Repeat(CJK_ZHONG, 4)
    /\ analysis.query_lang = "zh"
    /\ analysis.query_type = "phrase"
    /\ analysis.units = <<query>>

\* two items of which one is a sentence: the text is one unit
C24_Witness ==
    /\ Analyzed
    /\ query = <<LATIN_a, COMMA, LATIN_a, SP, LATIN_a, SP, LATIN_a, FULL_STOP>>
    /\ Len(SplitListCandidates(analysis.normalized_query)) = 2
    /\ analysis.query_type = "sentence"
    /\ analysis.units = <<analysis.normalized_query>>

\* ------------------------------------------------------------------------
\* build_verifier_answer_text on its own: the answers, modes and query
\* types it is applied to.  The schema of an answer is the one select_schema
\* gives for the mode and the query type; only VALID answers are summarized.
\* ------------------------------------------------------------------------
MaxEntries == 2
MaxVariants == 2
MaxExamples == 2
MaxAlternatives == 1
MaxWords == 2
MaxCards == 2
MaxKeyTerms == 2
MaxOver == 2
ShortLens == {0, 4}
QueryTypes == {"word", "word_list", "phrase", "phrase_list", "sentence", "paragraph"}
DigestModes == {Str_dict, Str_dictionary, Str_encyclopedia}

\* the sizes an answer of a schema is built from
ParamsOf(schema) ==
    CASE schema = "WordDictResponse" ->
            [nE : 0..MaxEntries, nV : 0..MaxVariants, nEx : 0..MaxExamples,
             nAlt : 0..MaxAlternatives, a : ShortLens]
      [] schema \in {"SentenceL1toL2Response", "SentenceL2toL1Response"} ->
            [nW : 0..MaxWords, nEx : 0..MaxExamples,
             nAlt : 0..MaxAlternatives, a : ShortLens]
      [] schema \in {"ParagraphL1toL2Response", "ParagraphL2toL1Response"} ->
            [nC : 0..MaxCards, nW : 0..MaxWords, nEx : 0..MaxExamples,
             nAlt : 0..MaxAlternatives, a : ShortLens]
      [] schema = "EncyclopediaResponse" ->
            [nK : 0..MaxKeyTerms, opt : BOOLEAN, a : ShortLens]

\* the VALID answer of a schema with sizes p whose distinguished text has length b
Build(schema, p, b) ==
    CASE schema = "WordDictResponse" ->
            WordDictResponse("VALID", p.nE, p.nV, p.nEx, p.nAlt, p.a, b)
      [] schema = "SentenceL1toL2Response" ->
            SentenceL1toL2Response("VALID", p.nW, p.nEx, p.nAlt, p.a, b)
      [] schema = "SentenceL2toL1Response" ->
            SentenceL2toL1Response("VALID", p.nW, p.nEx, p.nAlt, p.a, b)
      [] schema = "ParagraphL1toL2Response" ->
            ParagraphL1toL2Response("VALID", p.nC, p.nW, p.nEx, p.nAlt, p.a, b)
      [] schema = "ParagraphL2toL1Response" ->
            ParagraphL2toL1Response("VALID", p.nC, p.nW, p.nEx, p.nAlt, p.a, b)
      [] schema = "EncyclopediaResponse" ->
            EncyclopediaResponse("VALID", p.nK, p.opt, p.a, b)

\* lengths of the full rendering to aim at: those around MAX_CHARS and one
\* far beyond it
TargetTotals ==
    ((MAX_CHARS - MaxOver)..(MAX_CHARS + MaxOver)) \cup {2 * MAX_CHARS}

\* the distinguished text lengths tried for an answer: a short one, and
\* those that bring its rendering to the target totals (the rendering grows
\* by one character with b)
LengthsFor(base, mode_, qt) ==
    LET overhead == JoinedLen(VerifierLines(base, mode_, qt))
    IN  {4} \cup {t - overhead : t \in {u \in TargetTotals : u >= overhead}}

DigestCalls ==
    UNION { UNION { {[entry |-> Build(c[3], p, b), mode |-> c[1], query_type |-> c[2]] :
                        b \in LengthsFor(Build(c[3], p, 0), c[1], c[2])} :
                    p \in ParamsOf(c[3]) } :
            c \in {<<m, qt, SelectSchema(m, [query_type |-> qt, query_lang |-> ql], "ko")>> :
                      m \in DigestModes, qt \in QueryTypes, ql \in {"ko", "en"}} }

InitDigest ==
    /\ pc = "summarize"
    /\ \E call \in DigestCalls :
          /\ entry = call.entry
          /\ mode = call.mode
          /\ analysis = [query_type |-> call.query_type]
    /\ request = None /\ query = <<>> /\ education = <<>> /\ field = <<>>
    /\ native_lang = "" /\ target_lang = ""
    /\ llm = "" /\ generator_schema = ""
    /\ verifier_answer_text = None /\ verifier_result = None
    /\ verifier_source_lang = "" /\ verifier_target_lang = ""
    /\ entry_regen = None /\ generator_response = None /\ regen_response = None
    /\ verifier_response = None
    /\ response = None
    /\ gen_calls = 0 /\ ver_calls = 0
    /\ generator_prompt = None /\ regen_prompt = None /\ parked = None

\* build_verifier_answer_text(entry, mode, analysis.query_type)
Summarize ==
    /\ pc = "summarize"
    /\ verifier_answer_text' = BuildVerifierAnswerText(entry, mode, analysis.query_type)
    /\ pc' = "summarized"
    /\ UNCHANGED <<parked, generator_prompt, regen_prompt, request, query,
                   education, field, mode, native_lang, target_lang, llm, analysis,
                   generator_schema, entry, verifier_source_lang,
                   verifier_target_lang, verifier_result, entry_regen,
                   generator_response, regen_response, verifier_response, response,
                   gen_calls, ver_calls>>

NextDigest == Summarize

SpecDigest == InitDigest /\ [][NextDigest]_vars

Summarized == pc = "summarized"

\* C5: the digest is at most 4000 characters long, whatever the answer, the
\* mode and the query type, also when the full rendering is longer.
C5_DigestAtMost4000 ==
    Summarized => verifier_answer_text.length <= 4000

\* the offset in the joined text at which line i ends
RECURSIVE LineEnd(_, _)
LineEnd(lines, i) ==
    IF i = 0 THEN -1 ELSE LineEnd(lines, i - 1) + 1 + lines[i].len

\* C6: every Tier-3 line comes after every Tier-1 and Tier-2 line, so a
\* truncated digest never keeps a Tier-3 line while a Tier-1 or Tier-2
\* line is cut.
C6_Tier3DroppedFirst ==
    Summarized =>
        LET lines == verifier_answer_text.lines
        IN  /\ \A i, j \in 1..Len(lines) :
                  (lines[i].tier = 3 /\ lines[j].tier \in {1, 2}) => j < i
            /\ verifier_answer_text.truncated =>
                  ~ \E i, j \in 1..Len(lines) :
                        /\ lines[i].tier = 3
                        /\ LineEnd(lines, i) <= verifier_answer_text.kept
                        /\ lines[j].tier \in {1, 2}
                        /\ LineEnd(lines, j) > verifier_answer_text.kept

\* C19: a full rendering of more than 4000 characters is returned as its
\* first 4000 characters followed by the 29-character marker; a full
\* rendering of 4000 characters or fewer is returned whole, without marker.
C19_TruncationForm ==
    Summarized =>
        LET lines == verifier_answer_text.lines
            full == IF lines = <<>> THEN 0 ELSE LineEnd(lines, Len(lines))
        IN  IF full > 4000
            THEN /\ verifier_answer_text.truncated
                 /\ verifier_answer_text.kept = 4000
                 /\ verifier_answer_text.length = 4000 + 29
            ELSE /\ ~verifier_answer_text.truncated
                 /\ verifier_answer_text.kept = full
                 /\ verifier_answer_text.length = full

\* a full rendering of 4001 characters: 4000 kept, marker appended
C19_Witness ==
    /\ Summarized
    /\ LineEnd(verifier_answer_text.lines, Len(verifier_answer_text.lines)) = 4001
    /\ verifier_answer_text.truncated
    /\ verifier_answer_text.kept = 4000
    /\ verifier_answer_text.length = 4029

====
